---------------------------- MODULE Spec2Model ----------------------------
(***************************************************************************)
(* Model of the guest-side VM bus message layer of the dxgkrnl driver      *)
(* (common-modules/virtual-device/virtio_dxgkrnl/dxgvmbus.c).              *)
(*                                                                         *)
(* The module holds several specifications over one set of variables:      *)
(*   SpecStatus  ntstatus2int applied to host status words                 *)
(*   SpecRle     copy_sysmem_pages_rle_data on bounded page lists          *)
(*   SpecEnc     one call of an encoder under a faulty environment         *)
(*   SpecLock    concurrent encoder calls and the global channel lock      *)
(* Every specification leaves the variables of the others at their initial *)
(* values.                                                                 *)
(***************************************************************************)
EXTENDS Integers, Sequences, FiniteSets, TLC

(***************************************************************************)
(* errno values (uapi/asm-generic/errno-base.h, errno.h).                  *)
(***************************************************************************)
EPERM == 1
ENOENT == 2
EBADF == 9
EAGAIN == 11
ENOMEM == 12
EACCES == 13
EEXIST == 17
ENODEV == 19
EINVAL == 22
EOVERFLOW == 75
EPROTOTYPE == 91
EOPNOTSUPP == 95
EINPROGRESS == 115
ENOTRECOVERABLE == 131

(***************************************************************************)
(* Host status words.  struct ntstatus holds a signed 32-bit value v; the  *)
(* values are the NTSTATUS codes as signed ints (0xC0000035 is             *)
(* -1073741771).  STATUS_TIMEOUT (0x102) and STATUS_PENDING (0x103) have   *)
(* the severity bits clear: they are success codes.                        *)
(***************************************************************************)
STATUS_SUCCESS == 0
STATUS_TIMEOUT == 258
STATUS_PENDING == 259
STATUS_UNSUCCESSFUL == -1073741823
STATUS_NOT_IMPLEMENTED == -1073741822
STATUS_INVALID_HANDLE == -1073741816
STATUS_INVALID_PARAMETER == -1073741811
STATUS_NO_MEMORY == -1073741801
STATUS_ILLEGAL_INSTRUCTION == -1073741795
STATUS_ACCESS_DENIED == -1073741790
STATUS_BUFFER_TOO_SMALL == -1073741789
STATUS_OBJECT_TYPE_MISMATCH == -1073741788
STATUS_OBJECT_NAME_INVALID == -1073741773
STATUS_OBJECT_NAME_NOT_FOUND == -1073741772
STATUS_OBJECT_NAME_COLLISION == -1073741771
STATUS_NOT_SUPPORTED == -1073741637
STATUS_DEVICE_REMOVED == -1073741130
STATUS_GRAPHICS_ALLOCATION_BUSY == -1071775486

\* NT_SUCCESS(status): status.v >= 0
NT_SUCCESS(v) == v >= 0

\* A translator that takes only STATUS_SUCCESS for a success.
ntstatus2int_zero_only(v) ==
    IF v = 0 THEN v
    ELSE CASE v = STATUS_OBJECT_NAME_COLLISION -> -EEXIST
           [] v = STATUS_NO_MEMORY -> -ENOMEM
           [] OTHER -> -EINVAL

ntstatus2int(v) ==
    IF NT_SUCCESS(v) THEN v
    ELSE CASE v = STATUS_OBJECT_NAME_COLLISION -> -EEXIST
           [] v = STATUS_NO_MEMORY -> -ENOMEM
           [] v = STATUS_INVALID_PARAMETER -> -EINVAL
           [] v = STATUS_OBJECT_NAME_INVALID -> -ENOENT
           [] v = STATUS_OBJECT_NAME_NOT_FOUND -> -ENOENT
           [] v = STATUS_TIMEOUT -> -EAGAIN
           [] v = STATUS_BUFFER_TOO_SMALL -> -EOVERFLOW
           [] v = STATUS_DEVICE_REMOVED -> -ENODEV
           [] v = STATUS_ACCESS_DENIED -> -EACCES
           [] v = STATUS_NOT_SUPPORTED -> -EPERM
           [] v = STATUS_ILLEGAL_INSTRUCTION -> -EOPNOTSUPP
           [] v = STATUS_INVALID_HANDLE -> -EBADF
           [] v = STATUS_GRAPHICS_ALLOCATION_BUSY -> -EINPROGRESS
           [] v = STATUS_OBJECT_TYPE_MISMATCH -> -EPROTOTYPE
           [] v = STATUS_NOT_IMPLEMENTED -> -EPERM
           [] OTHER -> -EINVAL

VARIABLES
    status_in,      \* the host status word handed to ntstatus2int
    status_out,     \* its translation
    status_done,    \* whether status_out holds the translation of status_in
    rle_args,       \* arguments of copy_sysmem_pages_rle_data
    rle_res,        \* its result (ret, records written, per-allocation counts)
    dxgglobal,      \* the driver's globals: vmbus_ver, async_msg_enabled
    enc_call,       \* the encoder called and its arguments
    enc_ret,        \* the value the encoder returned
    enc_log,        \* what the call did, in order
    handle_table,   \* the process handle table: entries [type, h]
    enc_objs,       \* the guest objects the call was handed
    iospace,        \* the mapped memory windows
    thread,         \* each caller thread's encoder call and its position in it
    channel_lock,   \* the thread that holds the global channel lock (0: none)
    in_flight       \* the requests sent and not yet answered: [thread, channel]

vars == <<status_in, status_out, status_done, rle_args, rle_res,
          dxgglobal, enc_call, enc_ret, enc_log, handle_table, enc_objs,
          iospace, thread, channel_lock, in_flight>>

statusVars == <<status_in, status_out, status_done>>
rleVars == <<rle_args, rle_res>>
encVars == <<dxgglobal, enc_call, enc_ret, enc_log, handle_table, enc_objs,
             iospace>>
lockVars == <<thread, channel_lock, in_flight>>

\* The value of a variable that its specification has not set yet.
None == [none |-> TRUE]

(***************************************************************************)
(* System-memory page lists and their run-length encoding.                 *)
(*                                                                         *)
(* A host allocation size is a u64 byte count.  It is kept as a pair       *)
(* [pages, rem] standing for pages * PAGE_SIZE + rem bytes, rem <          *)
(* PAGE_SIZE, so that sizes near 2^32 bytes stay within 32-bit integers.   *)
(* A page is named by its frame number; frame 0 is never handed out to     *)
(* user space.                                                             *)
(***************************************************************************)
PAGE_SHIFT == 1
PAGE_SIZE == 2 ^ PAGE_SHIFT
SIZEOF_U64 == 8

MaxAllocs == 3      \* allocations in one create-allocation call
MaxPages == 3       \* pages one call can pin; a larger request fails
MaxFrame == 3       \* page frames are 1 .. MaxFrame

\* 2^32 / sizeof(u64): the number of u64 words at which a u32 byte count wraps
U32Words == 2 ^ 29

page_to_phys(frame) == frame * PAGE_SIZE

SizeBytesPositive(sz) == sz.pages > 0 \/ sz.rem > 0

\* (size + PAGE_SIZE - 1) / PAGE_SIZE
PagesRoundedUp(sz) == sz.pages + (IF sz.rem > 0 THEN 1 ELSE 0)

\* size >> PAGE_SHIFT
PagesRoundedDown(sz) == sz.pages

RECURSIVE SumPagesRoundedUp(_, _)
SumPagesRoundedUp(sizes, n) ==
    IF n = 0 THEN 0
    ELSE SumPagesRoundedUp(sizes, n - 1) + PagesRoundedUp(sizes[n])

\* calculate_max_rle_data_size as its caller keeps it: the u64 product
\* num_pages * sizeof(u64) stored into the u32 sysmem_pages_rle_limit.  The
\* result is given in u64 words: the limit in bytes is SIZEOF_U64 times it.
calculate_max_rle_data_size(sizes) ==
    SumPagesRoundedUp(sizes, Len(sizes)) % U32Words

\* used >= limit, for a count used and a limit of limit_words u64 words
ReachesLimit(used, limit_words) == used \div SIZEOF_U64 >= limit_words

\* The largest value of the model's integers; it stands for every u32
\* value from 2^31 on.
U32Large == (2 ^ 30 - 1) + 2 ^ 30

\* The u32 sum cmd_size + limit, limit given in u64 words.
AddLimit(cmd_size, limit_words) ==
    IF limit_words <= (U32Large - cmd_size) \div SIZEOF_U64
    THEN cmd_size + SIZEOF_U64 * limit_words
    ELSE IF cmd_size >= SIZEOF_U64 * (U32Words - limit_words)
    THEN cmd_size - SIZEOF_U64 * (U32Words - limit_words)
    ELSE U32Large

\* The low PAGE_SHIFT bits of a record: the run length minus one.
RecordSizeField(rec) == rec % PAGE_SIZE
\* The page-aligned part of a record: the physical address of the run.
RecordBase(rec) == rec - (rec % PAGE_SIZE)

\* A record that stores the run length itself.
RleRecord_length(base_page, pages_seen) == base_page + pages_seen

\* base_page | (pages_seen - 1); base_page is page aligned and
\* pages_seen - 1 < PAGE_SIZE, so the bits do not overlap.
RleRecord(base_page, pages_seen) == base_page + (pages_seen - 1)

\* vzalloc(npages * sizeof(void *)) gives NULL for a zero size and for a
\* size the machine cannot back.
VzallocCanSucceed(npages) == npages >= 1 /\ npages <= MaxPages

\* One pass of the page loop of copy_sysmem_pages_rle_data.
RlePageStep(s, pages_processed, pages, limit) ==
    LET npages == Len(pages)
        curr_page == page_to_phys(pages[s.page_in])
        base_page == IF s.base_page = 0 THEN curr_page ELSE s.base_page
        flush == \/ /\ pages_processed # 0
                    /\ curr_page # base_page + s.pages_seen * PAGE_SIZE
                 \/ s.pages_seen = PAGE_SIZE
                 \/ pages_processed = npages
        next_in == IF pages_processed < npages - 1
                   THEN s.page_in + 1 ELSE s.page_in
    IN IF flush
       THEN IF ReachesLimit(s.used, limit)
            THEN [s EXCEPT !.ret = 0 - EOVERFLOW, !.base_page = base_page]
            ELSE [s EXCEPT
                    !.dest = Append(@, RleRecord(base_page, s.pages_seen)),
                    !.owner = Append(@, s.i),
                    !.base_page = curr_page,
                    !.pages_seen = 1,
                    !.used = @ + 1,
                    !.rle_size[s.i] = @ + 1,
                    !.page_in = next_in]
       ELSE [s EXCEPT !.base_page = base_page,
                      !.pages_seen = @ + 1,
                      !.page_in = next_in]

RECURSIVE RlePageLoop(_, _, _, _)
RlePageLoop(s, pages_processed, pages, limit) ==
    IF pages_processed > Len(pages) THEN s
    ELSE LET t == RlePageStep(s, pages_processed, pages, limit)
         IN IF t.ret # 0 THEN t
            ELSE RlePageLoop(t, pages_processed + 1, pages, limit)

\* The body of the allocation loop for allocation s.i.
RleAllocStep(s, a, pin, limit) ==
    LET npages == PagesRoundedDown(a.size)
    IN IF a.priv_drv_data_size # 0 /\ SizeBytesPositive(a.size)
       THEN IF ~VzallocCanSucceed(npages) \/ pin = "vzalloc"
            THEN [s EXCEPT !.ret = 0 - ENOMEM]
            ELSE IF pin = "gup"
            THEN [s EXCEPT !.ret = 0 - ENOMEM]
            ELSE RlePageLoop([s EXCEPT !.page_in = 1, !.base_page = 0,
                                       !.pages_seen = 0,
                                       !.pinned = @ \cup {s.i}],
                             0, a.pages, limit)
       ELSE s

RECURSIVE RleAllocLoop(_, _, _, _)
RleAllocLoop(s, allocs, pin, limit) ==
    IF s.i > Len(allocs) THEN s
    ELSE LET t == RleAllocStep(s, allocs[s.i], pin[s.i], limit)
         IN IF t.ret # 0 THEN t
            ELSE RleAllocLoop([t EXCEPT !.i = @ + 1], allocs, pin, limit)

\* allocs[i] = [priv_drv_data_size, size, pages]: the caller's private data
\* size, the host's size and the pages get_user_pages_fast pins for it.
\* pin[i] is "ok", or the step of the pinning that fails: "vzalloc", "gup".
\* The result holds ret, the records written (dest) with the allocation
\* each was written for (owner), the sysmem_pages_rle_size fields, the
\* allocation index the loop stopped at (i) and sysmem_pages_rle_used.
copy_sysmem_pages_rle_data(allocs, pin, sysmem_pages_rle_limit) ==
    RleAllocLoop([ret |-> 0, dest |-> <<>>, owner |-> <<>>,
                  rle_size |-> [k \in 1..Len(allocs) |-> 0],
                  i |-> 1, used |-> 0, page_in |-> 1, base_page |-> 0,
                  pages_seen |-> 0, pinned |-> {}],
                 allocs, pin, sysmem_pages_rle_limit)

(***************************************************************************)
(* The message layer.  Sizes are in bytes; the structure sizes are those   *)
(* of the packed declarations of dxgvmbus.h.                               *)
(***************************************************************************)
DXG_MAX_VM_BUS_PACKET_SIZE == 131072
VMBUSMESSAGEONSTACK == 64
DXGK_VMBUS_INTERFACE_VERSION == 40
sizeof_dxgvmb_ext_header == 16
sizeof_d3dkmthandle == 4
sizeof_u32 == 4
sizeof_makeresident == 40
sizeof_createcontextvirtual == 49
sizeof_destroycontext == 24
sizeof_createhwqueue == 61
sizeof_destroyhwqueue == 24
sizeof_createallocation == 53
sizeof_createallocation_allocinfo == 16
sizeof_destroyallocation == 40
sizeof_getallocationsize == 28
sizeof_createprocess == 560
sizeof_createdevice == 37
sizeof_getinternaladapterinfo == 20

\* The error a failed transport call returns.
TransportError == 0 - ENODEV

MaxFaults == 1      \* environment deviations from the nominal run in one call

\* The sets of at most k deviations drawn from points.
RECURSIVE DeviationSets(_, _)
DeviationSets(points, k) ==
    IF k = 0 THEN {{}}
    ELSE LET prev == DeviationSets(points, k - 1)
         IN prev \cup { d \cup {p} : d \in prev, p \in points }

\* A deviation [at, i]: the environment step named at fails (for allocation
\* i where the step is per allocation, else i = 0).
Deviates(D, at, i) == [at |-> at, i |-> i] \in D

Point(at) == [at |-> at, i |-> 0]

\* The status word of a host response.
HostStatus(D, fail, pending) ==
    IF Deviates(D, fail, 0) THEN STATUS_NO_MEMORY
    ELSE IF Deviates(D, pending, 0) THEN STATUS_PENDING
    ELSE STATUS_SUCCESS

Ev(s, e) == [s EXCEPT !.log = Append(@, e)]

\* struct dxgvmbusmsg msg = {.hdr = NULL}
NullMessage(name) ==
    [name |-> name, hdr |-> "NULL", size |-> 0, channel |-> "unset", ret |-> 0]

use_ext_header(g) == g.vmbus_ver >= DXGK_VMBUS_INTERFACE_VERSION

\* A u32 from 2^31 on is written as the negative number that has the same
\* 32 bits: U32FromTop(k) is 2^32 - k.  Sums of such numbers wrap as the
\* machine's do.
U32FromTop(k) == 0 - k

\* a <= b for two u32 values.
U32Le(a, b) == IF (a >= 0) = (b >= 0) THEN a <= b ELSE a >= 0

\* adapter: whether the adapter argument is non-NULL.  msg_at is msg->msg
\* as an offset into the buffer, command_offset and vgpu_luid (whether it
\* was set from the adapter) are the fields of the extended header; the
\* buffer is zeroed by memset or by kzalloc.
init_message(g, name, adapter, size, kzalloc_ok) ==
    LET sz == IF use_ext_header(g) THEN size + sizeof_dxgvmb_ext_header ELSE size
        channel == IF adapter /\ ~g.async_msg_enabled THEN "adapter" ELSE "global"
        msg_at == IF use_ext_header(g) THEN sizeof_dxgvmb_ext_header ELSE 0
    IN IF U32Le(sz, VMBUSMESSAGEONSTACK)
       THEN [name |-> name, hdr |-> "msg_on_stack", size |-> sz,
             channel |-> channel, ret |-> 0, msg_at |-> msg_at,
             command_offset |-> msg_at,
             vgpu_luid |-> use_ext_header(g) /\ adapter]
       ELSE IF kzalloc_ok
       THEN [name |-> name, hdr |-> "heap", size |-> sz,
             channel |-> channel, ret |-> 0, msg_at |-> msg_at,
             command_offset |-> msg_at,
             vgpu_luid |-> use_ext_header(g) /\ adapter]
       ELSE [name |-> name, hdr |-> "NULL", size |-> sz,
             channel |-> "unset", ret |-> 0 - ENOMEM]

InitMessage(s, msg) == Ev(s, [ev |-> "init_message", msg |-> msg])

\* A release that hands every non-NULL buffer to kfree.
free_message_any(s, msg) ==
    IF msg.hdr # "NULL" THEN Ev(s, [ev |-> "kfree", msg |-> msg]) ELSE s

free_message(s, msg) ==
    IF msg.hdr # "NULL" /\ msg.hdr # "msg_on_stack"
    THEN Ev(s, [ev |-> "kfree", msg |-> msg])
    ELSE s

\* The transport primitive: the message goes out and the call returns the
\* transport's result.
dxgvmb_send_sync_msg(s, msg, cmd, payload, fails) ==
    [Ev(s, [ev |-> "send", cmd |-> cmd, msg |-> msg, payload |-> payload,
            primitive |-> "sync", failed |-> fails])
        EXCEPT !.ret = IF fails THEN TransportError ELSE 0]

\* The asynchronous primitive: the message goes out and the call returns
\* without waiting for the host.
dxgvmb_send_async_msg(s, msg, cmd, payload, fails) ==
    [Ev(s, [ev |-> "send", cmd |-> cmd, msg |-> msg, payload |-> payload,
            primitive |-> "async", failed |-> fails])
        EXCEPT !.ret = IF fails THEN TransportError ELSE 0]

dxgvmb_send_sync_msg_ntstatus(s, msg, cmd, payload, fails, status) ==
    LET t == dxgvmb_send_sync_msg(s, msg, cmd, payload, fails)
    IN IF t.ret >= 0 THEN [t EXCEPT !.ret = ntstatus2int(status)] ELSE t

\* The command buffer is read after the call that filled it.
UseMessage(s, msg) == Ev(s, [ev |-> "use", msg |-> msg])

EncStart == [ret |-> 0, log |-> <<>>, table |-> {}, objs |-> None, maps |-> {}]

(***************************************************************************)
(* dxgvmb_send_create_process, as one thread runs it: the channel lock is  *)
(* free, or its acquisition fails.                                         *)
(***************************************************************************)
HostProcess == 2        \* the process handle the host hands out

CreateProcessPoints ==
    { Point(at) : at \in {"kzalloc", "acquire_channel_lock", "send",
                          "zero_handle"} }

NewProcess == [process |-> [host_handle |-> 0]]

dxgvmb_send_create_process(g, D, s0) ==
    LET msg == init_message(g, "msg", FALSE, sizeof_createprocess,
                            ~Deviates(D, "kzalloc", 0))
        s1 == InitMessage(s0, msg)
        refused == Ev(s1, [ev |-> "acquire_channel_lock", ok |-> FALSE])
        locked == Ev(s1, [ev |-> "acquire_channel_lock", ok |-> TRUE])
        sent == dxgvmb_send_sync_msg(locked, msg, "CREATEPROCESS",
                                     [linux_process |-> 1],
                                     Deviates(D, "send", 0))
        hprocess == IF Deviates(D, "zero_handle", 0) THEN 0 ELSE HostProcess
        answered == Ev(sent, [ev |-> "response", hprocess |-> hprocess])
        s2 == IF sent.ret < 0 THEN sent
              ELSE IF hprocess = 0
              THEN [answered EXCEPT !.ret = 0 - ENOTRECOVERABLE]
              ELSE [answered EXCEPT !.objs.process.host_handle = hprocess]
    IN IF msg.ret # 0 THEN [s1 EXCEPT !.ret = msg.ret]
       ELSE IF Deviates(D, "acquire_channel_lock", 0)
       THEN free_message([refused EXCEPT !.ret = 0 - ENODEV], msg)
       ELSE free_message(Ev(s2, [ev |-> "release_channel_lock"]), msg)

(***************************************************************************)
(* dxgvmb_send_make_resident                                               *)
(***************************************************************************)
MakeResidentPoints ==
    { Point(at) : at \in {"kzalloc", "copy_from_user", "send", "status",
                          "status_pending"} }

HostPagingFence == 16       \* the paging fence value in the host's answer
HostBytesToTrim == 17       \* the number of bytes to trim in the host's answer

\* args->paging_fence_value and args->num_bytes_to_trim are set from the
\* answer before its status is read.
MakeResidentStores(s, status) ==
    Ev(Ev(Ev(s, [ev |-> "response", status |-> status]),
          [ev |-> "store", field |-> "paging_fence_value",
           value |-> HostPagingFence]),
       [ev |-> "store", field |-> "num_bytes_to_trim",
        value |-> HostBytesToTrim])

dxgvmb_send_make_resident(g, args, D, s0) ==
    LET cmd_size == (args.alloc_count - 1) * sizeof_d3dkmthandle
                    + sizeof_makeresident
        msg == init_message(g, "msg", TRUE, cmd_size, ~Deviates(D, "kzalloc", 0))
        s1 == InitMessage(s0, msg)
        s2 == IF msg.ret # 0 THEN [s1 EXCEPT !.ret = msg.ret]
              ELSE IF Deviates(D, "copy_from_user", 0)
              THEN [s1 EXCEPT !.ret = 0 - EINVAL]
              ELSE LET t == dxgvmb_send_sync_msg(
                               s1, msg, "MAKERESIDENT",
                               [alloc_count |-> args.alloc_count],
                               Deviates(D, "send", 0))
                   IN IF t.ret < 0 THEN t
                      ELSE [MakeResidentStores(
                                t, HostStatus(D, "status", "status_pending"))
                              EXCEPT !.ret = ntstatus2int(
                               HostStatus(D, "status", "status_pending"))]
    IN free_message(s2, msg)

(***************************************************************************)
(* dxgvmb_send_destroy_context, dxgvmb_send_create_context                 *)
(***************************************************************************)
HostContext == 5    \* the context handle the host hands out

dxgvmb_send_destroy_context(g, h, D, s0) ==
    LET msg == init_message(g, "destroy", TRUE, sizeof_destroycontext,
                            ~Deviates(D, "destroy_kzalloc", 0))
        s1 == InitMessage(s0, msg)
        s2 == IF msg.ret # 0 THEN [s1 EXCEPT !.ret = msg.ret]
              ELSE dxgvmb_send_sync_msg_ntstatus(
                       s1, msg, "DESTROYCONTEXT", [context |-> h],
                       Deviates(D, "destroy_send", 0),
                       HostStatus(D, "destroy_status", "destroy_pending"))
    IN free_message(s2, msg)

CreateContextPoints ==
    { Point(at) : at \in {"kzalloc", "copy_from_user", "send", "copy_to_user",
                          "destroy_send", "destroy_status"} }

\* The result's ret is the context handle returned (0: none).
dxgvmb_send_create_context(g, args, D, s0) ==
    IF args.priv_drv_data_size > DXG_MAX_VM_BUS_PACKET_SIZE
    THEN free_message([s0 EXCEPT !.ret = 0], NullMessage("msg"))
    ELSE
    LET cmd_size == sizeof_createcontextvirtual + args.priv_drv_data_size - 1
        msg == init_message(g, "msg", TRUE, cmd_size, ~Deviates(D, "kzalloc", 0))
        s1 == InitMessage(s0, msg)
        s2 == IF msg.ret # 0 THEN [s1 EXCEPT !.ret = 0]
              ELSE IF args.priv_drv_data_size # 0
                      /\ Deviates(D, "copy_from_user", 0)
              THEN [s1 EXCEPT !.ret = 0]
              ELSE LET t == dxgvmb_send_sync_msg(
                               s1, msg, "CREATECONTEXTVIRTUAL",
                               [priv_drv_data_size |-> args.priv_drv_data_size],
                               Deviates(D, "send", 0))
                   IN IF t.ret < 0 THEN [t EXCEPT !.ret = 0]
                      ELSE LET u == UseMessage(t, msg)
                           IN IF args.priv_drv_data_size # 0
                                 /\ Deviates(D, "copy_to_user", 0)
                              THEN [dxgvmb_send_destroy_context(
                                        g, HostContext, D, UseMessage(u, msg))
                                      EXCEPT !.ret = 0]
                              ELSE [u EXCEPT !.ret = HostContext]
    IN free_message(s2, msg)

(***************************************************************************)
(* The process handle table, a set of entries [type, h] (hmgrtable.c), and *)
(* the memory window mapper as far as the encoders use it.                 *)
(***************************************************************************)
\* hmgrtable_assign_handle: registers h with the given type unless the
\* table refuses (the handle is in use, or no memory for the entry).
hmgrtable_assign_handle(s, type, h, refused) ==
    IF refused \/ \E e \in s.table : e.h = h
    THEN [Ev(s, [ev |-> "assign_handle", type |-> type, h |-> h, ok |-> FALSE])
            EXCEPT !.ret = 0 - EINVAL]
    ELSE [Ev(s, [ev |-> "assign_handle", type |-> type, h |-> h, ok |-> TRUE])
            EXCEPT !.ret = 0, !.table = @ \cup {[type |-> type, h |-> h]}]

hmgrtable_free_handle(s, type, h) ==
    [Ev(s, [ev |-> "free_handle", type |-> type, h |-> h])
        EXCEPT !.table = @ \ {[type |-> type, h |-> h]}]

\* dxg_map_iospace as its callers see it: a window at the address, or NULL.
dxg_map_iospace(s, address, ok) ==
    IF ok THEN [Ev(s, [ev |-> "map_iospace", address |-> address])
                  EXCEPT !.maps = @ \cup {address}]
    ELSE s

(***************************************************************************)
(* dxgvmb_send_destroy_hwqueue, dxgvmb_send_create_hwqueue                 *)
(***************************************************************************)
HostHwqueue == 6        \* the queue handle the host hands out
HostFence == 7          \* the handle of the queue's progress fence
HostFenceCpuVa == 4096  \* the IO-space address of the fence value

dxgvmb_send_destroy_hwqueue(g, h, D, s0) ==
    LET msg == init_message(g, "destroy", TRUE, sizeof_destroyhwqueue,
                            ~Deviates(D, "destroy_kzalloc", 0))
        s1 == InitMessage(s0, msg)
        s2 == IF msg.ret # 0 THEN [s1 EXCEPT !.ret = msg.ret]
              ELSE dxgvmb_send_sync_msg_ntstatus(
                       s1, msg, "DESTROYHWQUEUE", [hwqueue |-> h],
                       Deviates(D, "destroy_send", 0),
                       HostStatus(D, "destroy_status", "destroy_pending"))
    IN free_message(s2, msg)

CreateHwqueuePoints ==
    { Point(at) : at \in {"kzalloc", "copy_from_user", "send", "status",
                          "status_pending", "assign_hwqueue", "assign_fence",
                          "map", "copy_to_user_priv", "destroy_send",
                          "destroy_status"} }
    \cup { [at |-> "copy_to_user", i |-> i] : i \in 1..4 }

NewHwqueue ==
    [hwqueue |-> [handle |-> 0, progress_fence_sync_object |-> 0,
                  progress_fence_mapped_address |-> 0]]

\* The copies to the caller that follow the mapping of the fence window.
CreateHwqueueCopyOut(args, D, s) ==
    IF \E i \in 1..4 : Deviates(D, "copy_to_user", i)
    THEN [s EXCEPT !.ret = 0 - EINVAL]
    ELSE IF args.priv_drv_data_size # 0 /\ Deviates(D, "copy_to_user_priv", 0)
    THEN [s EXCEPT !.ret = 0 - EINVAL]
    ELSE [s EXCEPT !.ret = 0]

\* From the host's answer to the label cleanup.  command_hwqueue is
\* command->hwqueue as the host's answer left it.
CreateHwqueueRegister(args, D, s, msg) ==
    LET s1 == hmgrtable_assign_handle(UseMessage(s, msg), "DXGHWQUEUE",
                                      HostHwqueue, Deviates(D, "assign_hwqueue", 0))
        s2 == hmgrtable_assign_handle(s1, "MONITOREDFENCE", HostFence,
                                      Deviates(D, "assign_fence", 0))
        s3 == [s2 EXCEPT !.objs.hwqueue.handle = HostHwqueue,
                         !.objs.hwqueue.progress_fence_sync_object = HostFence]
        s4 == dxg_map_iospace(s3, HostFenceCpuVa, ~Deviates(D, "map", 0))
    IN IF s1.ret < 0 THEN s1
       ELSE IF s2.ret < 0 THEN s2
       ELSE IF Deviates(D, "map", 0) THEN [s4 EXCEPT !.ret = 0 - ENOMEM]
       ELSE CreateHwqueueCopyOut(
                args, D,
                [s4 EXCEPT !.objs.hwqueue.progress_fence_mapped_address =
                               HostFenceCpuVa])

\* The label cleanup.  command_hwqueue = 0 also stands for command == NULL.
CreateHwqueueCleanup(g, D, s, msg, command_hwqueue) ==
    LET s1 == IF s.ret < 0 /\ s.objs.hwqueue.handle # 0
              THEN [hmgrtable_free_handle(s, "DXGHWQUEUE", s.objs.hwqueue.handle)
                      EXCEPT !.objs.hwqueue.handle = 0]
              ELSE s
        s2 == IF s.ret < 0 /\ command_hwqueue # 0
              THEN [dxgvmb_send_destroy_hwqueue(g, command_hwqueue, D,
                                                UseMessage(s1, msg))
                      EXCEPT !.ret = s.ret]
              ELSE s1
    IN free_message(s2, msg)

dxgvmb_send_create_hwqueue(g, args, D, s0) ==
    IF args.priv_drv_data_size > DXG_MAX_VM_BUS_PACKET_SIZE
    THEN CreateHwqueueCleanup(g, D, [s0 EXCEPT !.ret = 0 - EINVAL],
                              NullMessage("msg"), 0)
    ELSE
    LET cmd_size == sizeof_createhwqueue
                    + (IF args.priv_drv_data_size # 0
                       THEN args.priv_drv_data_size - 1 ELSE 0)
        msg == init_message(g, "msg", TRUE, cmd_size, ~Deviates(D, "kzalloc", 0))
        s1 == InitMessage(s0, msg)
        sent == dxgvmb_send_sync_msg(
                    s1, msg, "CREATEHWQUEUE",
                    [priv_drv_data_size |-> args.priv_drv_data_size],
                    Deviates(D, "send", 0))
        status == HostStatus(D, "status", "status_pending")
    IN IF msg.ret # 0
       THEN CreateHwqueueCleanup(g, D, [s1 EXCEPT !.ret = msg.ret], msg, 0)
       ELSE IF args.priv_drv_data_size # 0 /\ Deviates(D, "copy_from_user", 0)
       THEN CreateHwqueueCleanup(g, D, [s1 EXCEPT !.ret = 0 - EINVAL], msg, 0)
       ELSE IF sent.ret < 0
       THEN CreateHwqueueCleanup(g, D, sent, msg, 0)
       ELSE IF ntstatus2int(status) < 0
       THEN CreateHwqueueCleanup(
                g, D, [UseMessage(sent, msg) EXCEPT !.ret = ntstatus2int(status)],
                msg, 0)
       ELSE CreateHwqueueCleanup(
                g, D, CreateHwqueueRegister(args, D, UseMessage(sent, msg), msg),
                msg, HostHwqueue)

(***************************************************************************)
(* The guest objects of an allocation batch and their handles.             *)
(* s.objs.dxgalloc[i] and s.objs.resource are the objects the caller made  *)
(* before the call; state is "live" until the object is destroyed.         *)
(***************************************************************************)
DeviceHandle == 3           \* args->device
ExistingResource == 8       \* args->resource of a batch added to a resource
HostResource == 9           \* the resource handle the host hands out
HostAllocationBase == 10    \* the host names allocation i by base + i

HostAllocation(i) == HostAllocationBase + i

CopyToUser(s, what, i, D) ==
    LET ok == ~Deviates(D, what, i)
    IN [Ev(s, [ev |-> "copy_to_user", what |-> what, i |-> i, ok |-> ok])
          EXCEPT !.ret = IF ok THEN 0 ELSE 0 - EINVAL]

dxgallocation_free_handle(s, i) ==
    LET a == s.objs.dxgalloc[i]
        s1 == Ev(s, [ev |-> "dxgallocation_free_handle", i |-> i])
    IN IF a.handle_valid
       THEN [hmgrtable_free_handle(s1, "DXGALLOCATION", a.alloc_handle)
               EXCEPT !.objs.dxgalloc[i].handle_valid = FALSE]
       ELSE s1

dxgresource_free_handle(s) ==
    LET r == s.objs.resource
        s1 == Ev(s, [ev |-> "dxgresource_free_handle", i |-> 0])
    IN IF r.handle_valid
       THEN [hmgrtable_free_handle(s1, "DXGRESOURCE", r.handle)
               EXCEPT !.objs.resource.handle_valid = FALSE]
       ELSE s1

\* alloc_handle.v = 0; dxgallocation_destroy(dxgalloc[i]); dxgalloc[i] = NULL
dxgallocation_destroy(s, i) ==
    [Ev(s, [ev |-> "dxgallocation_destroy", i |-> i])
        EXCEPT !.objs.dxgalloc[i].alloc_handle = 0,
               !.objs.dxgalloc[i].state = "destroyed"]

dxgresource_destroy(s) ==
    [Ev(s, [ev |-> "dxgresource_destroy", i |-> 0])
        EXCEPT !.objs.resource.state = "destroyed"]

(***************************************************************************)
(* process_allocation_handles                                              *)
(***************************************************************************)
RECURSIVE AssignAllocationHandles(_, _, _, _)
AssignAllocationHandles(s, i, n, D) ==
    IF i > n THEN s
    ELSE LET t == hmgrtable_assign_handle(s, "DXGALLOCATION", HostAllocation(i),
                                          Deviates(D, "assign_allocation", i))
         IN IF t.ret < 0 THEN t
            ELSE AssignAllocationHandles(
                    [t EXCEPT !.objs.dxgalloc[i].alloc_handle = HostAllocation(i),
                              !.objs.dxgalloc[i].handle_valid = TRUE],
                    i + 1, n, D)

\* A registration that leaves the table locked.
process_allocation_handles_no_unlock(args, D, s0) ==
    LET s1 == Ev([s0 EXCEPT !.ret = 0], [ev |-> "hmgrtable_lock"])
    IN AssignAllocationHandles(s1, 1, args.alloc_count, D)

process_allocation_handles(args, D, s0) ==
    LET s1 == Ev([s0 EXCEPT !.ret = 0], [ev |-> "hmgrtable_lock"])
        r == hmgrtable_assign_handle(s1, "DXGRESOURCE", HostResource,
                                     Deviates(D, "assign_resource", 0))
        s2 == IF ~args.create_resource THEN s1
              ELSE IF r.ret < 0 THEN r
              ELSE [r EXCEPT !.objs.resource.handle = HostResource,
                             !.objs.resource.handle_valid = TRUE]
        s3 == AssignAllocationHandles(s2, 1, args.alloc_count, D)
    IN Ev(s3, [ev |-> "hmgrtable_unlock"])

(***************************************************************************)
(* create_local_allocations                                                *)
(***************************************************************************)
\* The host returns private data of the size the caller passed in.
RECURSIVE CopyOutAllocations(_, _, _, _, _)
CopyOutAllocations(s, i, n, args, D) ==
    IF i > n THEN s
    ELSE LET p == IF args.alloc_info[i].priv_drv_data_size # 0
                  THEN CopyToUser(s, "priv_drv_data", i, D)
                  ELSE s
             h == CopyToUser(p, "allocation", i, D)
         IN IF p.ret # 0 THEN p
            ELSE IF h.ret # 0 THEN h
            ELSE CopyOutAllocations(h, i + 1, n, args, D)

RECURSIVE RollbackFreeAllocationHandles(_, _, _)
RollbackFreeAllocationHandles(s, i, n) ==
    IF i > n THEN s
    ELSE RollbackFreeAllocationHandles(
            IF s.objs.dxgalloc[i].state = "live"
            THEN dxgallocation_free_handle(s, i) ELSE s,
            i + 1, n)

RollbackFreeHandles(args, s) ==
    LET s1 == RollbackFreeAllocationHandles(s, 1, args.alloc_count)
    IN IF s1.objs.resource.present /\ args.create_resource
       THEN dxgresource_free_handle(s1) ELSE s1

\* destroy_buf as the code fills it, if the message was built at all.
DestroyBuffer(args, msg) ==
    IF msg.hdr = "NULL" THEN [built |-> FALSE]
    ELSE [built |-> TRUE, device |-> args.device, resource |-> args.resource,
          alloc_count |-> args.alloc_count, assume_not_in_use |-> 1,
          allocations |-> [i \in 1..args.alloc_count |-> HostAllocation(i)]]

RollbackSendDestroy(args, D, s, msg) ==
    [dxgvmb_send_sync_msg_ntstatus(
         s, msg, "DESTROYALLOCATION", DestroyBuffer(args, msg),
         Deviates(D, "destroy_send", 0),
         HostStatus(D, "destroy_status", "destroy_pending"))
       EXCEPT !.ret = s.ret]

RECURSIVE RollbackDestroyAllocations(_, _, _)
RollbackDestroyAllocations(s, i, n) ==
    IF i > n THEN s
    ELSE RollbackDestroyAllocations(
            IF s.objs.dxgalloc[i].state = "live"
            THEN dxgallocation_destroy(s, i) ELSE s,
            i + 1, n)

RollbackDestroyObjects(args, s) ==
    LET s1 == RollbackDestroyAllocations(s, 1, args.alloc_count)
    IN IF s1.objs.resource.present /\ args.create_resource
       THEN dxgresource_destroy(s1) ELSE s1

\* A rollback that tells the host first.
CreateLocalRollback_send_first(args, D, s, msg) ==
    RollbackDestroyObjects(
        args, RollbackFreeHandles(args, RollbackSendDestroy(args, D, s, msg)))

\* The block under "if (ret < 0)" at the label cleanup.
CreateLocalRollback(args, D, s, msg) ==
    RollbackDestroyObjects(
        args, RollbackSendDestroy(args, D, RollbackFreeHandles(args, s), msg))

create_local_allocations(g, args, D, s0) ==
    LET destroy_buffer_size == sizeof_destroyallocation
                               + args.alloc_count * sizeof_d3dkmthandle
        msg == init_message(g, "destroy", TRUE, destroy_buffer_size,
                            ~Deviates(D, "destroy_kzalloc", 0))
        s1 == InitMessage([s0 EXCEPT !.ret = 0], msg)
        c1 == IF args.create_resource THEN CopyToUser(s1, "resource", 0, D)
              ELSE s1
        c2 == CopyOutAllocations(c1, 1, args.alloc_count, args, D)
        h == process_allocation_handles(args, D, c2)
        fwd == IF msg.ret # 0 THEN [s1 EXCEPT !.ret = msg.ret]
               ELSE IF c1.ret # 0 THEN c1
               ELSE IF c2.ret # 0 THEN c2
               ELSE IF h.ret < 0 THEN h
               ELSE CopyToUser(h, "global_share", 0, D)
        done == IF fwd.ret < 0 THEN CreateLocalRollback(args, D, fwd, msg)
                ELSE fwd
    IN free_message(done, msg)

(***************************************************************************)
(* dxgvmb_send_get_allocation_size                                         *)
(***************************************************************************)
RECURSIVE SumPrivDrvData(_, _)
SumPrivDrvData(alloc_info, n) ==
    IF n = 0 THEN 0
    ELSE SumPrivDrvData(alloc_info, n - 1) + alloc_info[n].priv_drv_data_size

\* The loop "Compute the total private driver size" ends in -EOVERFLOW.
PrivDrvDataOverflows(alloc_info) ==
    \E i \in 1..Len(alloc_info) :
        \/ alloc_info[i].priv_drv_data_size >= DXG_MAX_VM_BUS_PACKET_SIZE
        \/ SumPrivDrvData(alloc_info, i) >= DXG_MAX_VM_BUS_PACKET_SIZE

PrivCopyFails(alloc_info, D, at) ==
    \E i \in 1..Len(alloc_info) :
        alloc_info[i].priv_drv_data_size # 0 /\ Deviates(D, at, i)

dxgvmb_send_get_allocation_size(g, args, D, s0) ==
    LET cmd_size == sizeof_getallocationsize + args.alloc_count * sizeof_u32
                    + SumPrivDrvData(args.alloc_info, args.alloc_count)
        msg == init_message(g, "get_allocation_size", TRUE, cmd_size,
                            ~Deviates(D, "gas_kzalloc", 0))
        s1 == InitMessage(s0, msg)
        sent == dxgvmb_send_sync_msg(
                    s1, msg, "GETALLOCATIONSIZE",
                    [alloc_count |-> args.alloc_count],
                    Deviates(D, "gas_send", 0))
        status == HostStatus(D, "gas_status", "gas_pending")
        alloc_count == IF Deviates(D, "gas_count", 0)
                       THEN args.alloc_count + 1 ELSE args.alloc_count
        answered == Ev(sent, [ev |-> "response", status |-> status,
                              alloc_count |-> alloc_count])
    IN IF PrivDrvDataOverflows(args.alloc_info)
          \/ cmd_size > DXG_MAX_VM_BUS_PACKET_SIZE
       THEN free_message([s0 EXCEPT !.ret = 0 - EOVERFLOW],
                         NullMessage("get_allocation_size"))
       ELSE free_message(
                IF msg.ret # 0 THEN [s1 EXCEPT !.ret = msg.ret]
                ELSE IF PrivCopyFails(args.alloc_info, D, "gas_copy_from_user")
                THEN [s1 EXCEPT !.ret = 0 - EINVAL]
                ELSE IF sent.ret < 0 THEN sent
                ELSE IF alloc_count # args.alloc_count
                THEN [answered EXCEPT !.ret = 0 - EINVAL]
                ELSE [answered EXCEPT !.ret = ntstatus2int(status)],
                msg)

(***************************************************************************)
(* dxgvmb_send_create_allocation                                           *)
(*                                                                         *)
(* args: alloc_count, alloc_info[i] = [sysmem, priv_drv_data_size],        *)
(* private_runtime_data_size, priv_drv_data_size, create_resource, device, *)
(* resource.  host[i] = [size, pages]: the size the host reports for       *)
(* allocation i and the pages behind the caller's sysmem pointer.          *)
(***************************************************************************)
\* copy_private_data fails at one of its copy_from_user calls.
copy_private_data_fails(args, D) ==
    \/ args.private_runtime_data_size # 0 /\ Deviates(D, "copy_runtime_data", 0)
    \/ args.priv_drv_data_size # 0 /\ Deviates(D, "copy_priv_drv_data", 0)
    \/ PrivCopyFails(args.alloc_info, D, "copy_alloc_priv_drv_data")

PinOutcomes(n, D) ==
    [i \in 1..n |-> IF Deviates(D, "pin_vzalloc", i) THEN "vzalloc"
                    ELSE IF Deviates(D, "pin_gup", i) THEN "gup"
                    ELSE "ok"]

RleInput(args, host) ==
    [i \in 1..args.alloc_count |->
        [priv_drv_data_size |-> args.alloc_info[i].priv_drv_data_size,
         size |-> host[i].size, pages |-> host[i].pages]]

\* From init_message to the label cleanup.
CreateAllocationSend(g, args, host, D, s0, sysmem, cmd_size, limit) ==
    LET msg == init_message(g, "msg", TRUE, cmd_size, ~Deviates(D, "kzalloc", 0))
        s1 == InitMessage(s0, msg)
        rle == copy_sysmem_pages_rle_data(
                   RleInput(args, host), PinOutcomes(args.alloc_count, D), limit)
        s2 == IF sysmem THEN [s1 EXCEPT !.objs.rle = rle, !.ret = rle.ret]
              ELSE s1
        sent == dxgvmb_send_sync_msg(
                    s2, msg, "CREATEALLOCATION",
                    [alloc_count |-> args.alloc_count, sysmem |-> sysmem],
                    Deviates(D, "send", 0))
        status == ntstatus2int(HostStatus(D, "status", "status_pending"))
    IN free_message(
           IF msg.ret # 0 THEN [s1 EXCEPT !.ret = msg.ret]
           ELSE IF copy_private_data_fails(args, D)
           THEN [s1 EXCEPT !.ret = 0 - EINVAL]
           ELSE IF sysmem /\ s2.ret < 0 THEN s2
           ELSE IF sent.ret < 0 THEN sent
           ELSE IF status < 0 THEN [sent EXCEPT !.ret = status]
           ELSE create_local_allocations(g, args, D, sent),
           msg)

\* From the size of the message to the label cleanup.
CreateAllocationSize(g, args, host, D, s0, sysmem) ==
    LET cmd_size == sizeof_createallocation
                    + args.alloc_count * sizeof_createallocation_allocinfo
                    + args.private_runtime_data_size
                    + SumPrivDrvData(args.alloc_info, args.alloc_count)
                    + args.priv_drv_data_size
        limit == IF sysmem
                 THEN calculate_max_rle_data_size(
                          [i \in 1..args.alloc_count |-> host[i].size])
                 ELSE 0
    IN IF AddLimit(cmd_size, limit) > DXG_MAX_VM_BUS_PACKET_SIZE
       THEN free_message([s0 EXCEPT !.ret = 0 - EOVERFLOW,
                                    !.objs.sysmem_pages_rle_limit = limit],
                         NullMessage("msg"))
       ELSE CreateAllocationSend(
                g, args, host, D,
                [s0 EXCEPT !.objs.sysmem_pages_rle_limit = limit],
                sysmem, AddLimit(cmd_size, limit), limit)

dxgvmb_send_create_allocation(g, args, host, D, s0) ==
    LET sysmem == args.alloc_count > 0 /\ args.alloc_info[1].sysmem
        sizes == dxgvmb_send_get_allocation_size(g, args, D, s0)
        Fail(e) == free_message([s0 EXCEPT !.ret = 0 - e], NullMessage("msg"))
    IN IF \/ args.private_runtime_data_size >= DXG_MAX_VM_BUS_PACKET_SIZE
          \/ args.priv_drv_data_size >= DXG_MAX_VM_BUS_PACKET_SIZE
       THEN Fail(EOVERFLOW)
       ELSE IF PrivDrvDataOverflows(args.alloc_info) THEN Fail(EOVERFLOW)
       ELSE IF \E i \in 2..args.alloc_count : ~args.alloc_info[i].sysmem
       THEN Fail(EINVAL)
       ELSE IF Deviates(D, "vzalloc_result", 0) THEN Fail(ENOMEM)
       ELSE IF Deviates(D, "vzalloc_sizes", 0) THEN Fail(ENOMEM)
       ELSE IF sysmem /\ sizes.ret < 0
       THEN free_message(sizes, NullMessage("msg"))
       ELSE CreateAllocationSize(g, args, host, D,
                                 IF sysmem THEN sizes ELSE s0, sysmem)

(***************************************************************************)
(* Encoders that read a typed response.  The host's answer is logged when  *)
(* the transport call returned it; a store is a copy of a response field   *)
(* to the caller's structure or to a guest object.                         *)
(***************************************************************************)
sizeof_openadapter == 28
sizeof_queryclockcalibration == 60
sizeof_reservegpuvirtualaddress == 84
sizeof_createntsharedobject == 24
sizeof_getstandardallocprivdata == 68
sizeof_getstandardallocprivdata_return == 12

HostAdapter == 14           \* the adapter handle in the host's answer
HostSharedHandle == 15      \* the NT shared handle the host hands out
HostVirtualAddress == 8192  \* the GPU virtual address in the host's answer

HostResponse(s, status) == Ev(s, [ev |-> "response", status |-> status])

StoreResponse(s, field, value) ==
    Ev(s, [ev |-> "store", field |-> field, value |-> value])

TypedResponsePoints ==
    { Point(at) : at \in {"kzalloc", "send", "status", "status_pending",
                          "clock_data"} }

NewAdapter == [adapter |-> [host_handle |-> 0]]

dxgvmb_send_open_adapter(g, D, s0) ==
    LET msg == init_message(g, "msg", TRUE, sizeof_openadapter,
                            ~Deviates(D, "kzalloc", 0))
        s1 == InitMessage(s0, msg)
        sent == dxgvmb_send_sync_msg(s1, msg, "OPENADAPTER",
                                     [vmbus_interface_version |-> g.vmbus_ver],
                                     Deviates(D, "send", 0))
        status == HostStatus(D, "status", "status_pending")
        answered == HostResponse(sent, status)
    IN IF msg.ret # 0 THEN [s1 EXCEPT !.ret = msg.ret]
       ELSE IF sent.ret < 0 THEN free_message(sent, msg)
       ELSE free_message(
                [StoreResponse(answered, "host_adapter_handle", HostAdapter)
                   EXCEPT !.ret = ntstatus2int(status),
                          !.objs.adapter.host_handle = HostAdapter],
                msg)

dxgvmb_send_query_clock_calibration(g, D, s0) ==
    LET msg == init_message(g, "msg", TRUE, sizeof_queryclockcalibration,
                            ~Deviates(D, "kzalloc", 0))
        s1 == InitMessage(s0, msg)
        sent == dxgvmb_send_sync_msg(s1, msg, "QUERYCLOCKCALIBRATION",
                                     [node_ordinal |-> 0],
                                     Deviates(D, "send", 0))
        status == HostStatus(D, "status", "status_pending")
        copied == CopyToUser(HostResponse(sent, status), "clock_data", 0, D)
    IN free_message(
           IF msg.ret # 0 THEN [s1 EXCEPT !.ret = msg.ret]
           ELSE IF sent.ret < 0 THEN sent
           ELSE IF copied.ret # 0 THEN copied
           ELSE [copied EXCEPT !.ret = ntstatus2int(status)],
           msg)

\* What the response buffer of a call holds when the host wrote nothing to
\* it: the buffer is a local that was never initialised.
StackGarbage ==
    [status : {STATUS_SUCCESS, STATUS_PENDING, STATUS_NO_MEMORY},
     virtual_address : {0, 4096}]

\* The return value of the transport call is overwritten unread.
dxgvmb_send_reserve_gpu_va(g, garbage, D, s0) ==
    LET msg == init_message(g, "msg", TRUE, sizeof_reservegpuvirtualaddress,
                            ~Deviates(D, "kzalloc", 0))
        s1 == InitMessage(s0, msg)
        sent == dxgvmb_send_sync_msg(s1, msg, "RESERVEGPUVIRTUALADDRESS",
                                     [size |-> PAGE_SIZE],
                                     Deviates(D, "send", 0))
        status == HostStatus(D, "status", "status_pending")
        result == IF sent.ret < 0 THEN garbage
                  ELSE [status |-> status, virtual_address |-> HostVirtualAddress]
        answered == IF sent.ret < 0 THEN sent ELSE HostResponse(sent, status)
    IN free_message(
           IF msg.ret # 0 THEN [s1 EXCEPT !.ret = msg.ret]
           ELSE [StoreResponse(answered, "virtual_address",
                               result.virtual_address)
                   EXCEPT !.ret = ntstatus2int(result.status)],
           msg)

(***************************************************************************)
(* The submission encoders: dxgvmb_send_submit_command,                    *)
(* dxgvmb_send_signal_sync_object, dxgvmb_send_wait_sync_object_gpu and    *)
(* dxgvmb_send_submit_command_hwqueue.  Each ends in the same choice of    *)
(* the transport primitive.                                                *)
(***************************************************************************)
sizeof_submitcommand == 340
sizeof_signalsyncobject == 48
sizeof_waitforsyncobjectfromgpu == 37
sizeof_submitcommandtohwqueue == 76
D3DDDI_MAX_OBJECT_WAITED_ON == 32

\* A choice that sends every submission with the asynchronous primitive.
SubmissionSend_always_async(g, msg, cmd, payload, D, s) ==
    dxgvmb_send_async_msg(s, msg, cmd, payload @@ [async_msg |-> 1],
                          Deviates(D, "send", 0))

\* if (dxgglobal->async_msg_enabled) ... else ...: the header is marked and
\* the message sent without waiting, or it is sent and its status awaited.
SubmissionSend(g, msg, cmd, payload, D, s) ==
    IF g.async_msg_enabled
    THEN dxgvmb_send_async_msg(s, msg, cmd, payload @@ [async_msg |-> 1],
                               Deviates(D, "send", 0))
    ELSE LET status == HostStatus(D, "status", "status_pending")
             sent == dxgvmb_send_sync_msg(s, msg, cmd,
                                          payload @@ [async_msg |-> 0],
                                          Deviates(D, "send", 0))
         IN IF sent.ret < 0 THEN sent
            ELSE [HostResponse(sent, status) EXCEPT !.ret = ntstatus2int(status)]

SubmissionPoints ==
    { Point(at) : at \in {"kzalloc", "send", "status", "status_pending"} }
    \cup { [at |-> "copy_from_user", i |-> i] : i \in 1..3 }

dxgvmb_send_submit_command(g, args, D, s0) ==
    LET hbufsize == args.num_history_buffers * sizeof_d3dkmthandle
        cmd_size == sizeof_submitcommand + hbufsize + args.priv_drv_data_size
        msg == init_message(g, "msg", TRUE, cmd_size, ~Deviates(D, "kzalloc", 0))
        s1 == InitMessage(s0, msg)
    IN free_message(
           IF msg.ret # 0 THEN [s1 EXCEPT !.ret = msg.ret]
           ELSE IF Deviates(D, "copy_from_user", 1)
                   \/ Deviates(D, "copy_from_user", 2)
           THEN [s1 EXCEPT !.ret = 0 - EINVAL]
           ELSE SubmissionSend(g, msg, "SUBMITCOMMAND",
                               [num_history_buffers |-> args.num_history_buffers],
                               D, s1),
           msg)

\* The u32 product count * unit, for a unit of 4 or 8 bytes.
U32Mul(count, unit) == unit * (count % ((U32Words \div unit) * SIZEOF_U64))

\* What is written from &command[1] on, as current_pos moves: each section
\* with its offset from &command[1] and its length in bytes.
SignalSections(args, object_size, context_size, fence_size) ==
    LET pos1 == object_size
        pos2 == pos1 + (IF args.context # 0 THEN sizeof_d3dkmthandle ELSE 0)
        pos3 == pos2 + context_size
    IN <<[what |-> "objects", at |-> 0, len |-> object_size]>>
       \o (IF args.context # 0
           THEN <<[what |-> "context", at |-> pos1, len |-> sizeof_d3dkmthandle]>>
           ELSE <<>>)
       \o (IF context_size # 0
           THEN <<[what |-> "contexts", at |-> pos2, len |-> context_size]>>
           ELSE <<>>)
       \o (IF fence_size # 0
           THEN <<[what |-> "fences", at |-> pos3, len |-> fence_size]>>
           ELSE <<>>)

\* args: object_count, context (the handle, 0 for none), context_count,
\* fences (whether the pointer is set), fence_count, user_address.
dxgvmb_send_signal_sync_object(g, args, D, s0) ==
    LET object_size == U32Mul(args.object_count, sizeof_d3dkmthandle)
        context_size == U32Mul(args.context_count, sizeof_d3dkmthandle)
        fence_size == IF args.fences THEN U32Mul(args.fence_count, SIZEOF_U64)
                      ELSE 0
        cmd_size == sizeof_signalsyncobject + object_size + context_size
                    + fence_size
                    + (IF args.context # 0 THEN sizeof_d3dkmthandle ELSE 0)
        msg == init_message(g, "msg", TRUE, cmd_size, ~Deviates(D, "kzalloc", 0))
        s1 == InitMessage(s0, msg)
        copy_fails == /\ args.user_address
                      /\ \/ Deviates(D, "copy_from_user", 1)
                         \/ context_size # 0 /\ Deviates(D, "copy_from_user", 2)
                         \/ fence_size # 0 /\ Deviates(D, "copy_from_user", 3)
    IN free_message(
           IF msg.ret # 0 THEN [s1 EXCEPT !.ret = msg.ret]
           ELSE IF copy_fails THEN [s1 EXCEPT !.ret = 0 - EINVAL]
           ELSE SubmissionSend(
                    g, msg, "SIGNALSYNCOBJECT",
                    [object_count |-> args.object_count,
                     context_count |-> args.context_count
                                       + (IF args.context # 0 THEN 1 ELSE 0),
                     sections |-> SignalSections(args, object_size,
                                                 context_size, fence_size)],
                    D, s1),
           msg)

dxgvmb_send_wait_sync_object_gpu(g, args, D, s0) ==
    LET fence_size == args.object_count * SIZEOF_U64
        object_size == args.object_count * sizeof_d3dkmthandle
        cmd_size == object_size + fence_size - SIZEOF_U64
                    + sizeof_waitforsyncobjectfromgpu
        msg == init_message(g, "msg", TRUE, cmd_size, ~Deviates(D, "kzalloc", 0))
        s1 == InitMessage(s0, msg)
    IN IF args.object_count = 0
          \/ args.object_count > D3DDDI_MAX_OBJECT_WAITED_ON
       THEN free_message([s0 EXCEPT !.ret = 0 - EINVAL], NullMessage("msg"))
       ELSE free_message(
                IF msg.ret # 0 THEN [s1 EXCEPT !.ret = msg.ret]
                ELSE SubmissionSend(g, msg, "WAITFORSYNCOBJECTFROMGPU",
                                    [object_count |-> args.object_count], D, s1),
                msg)

dxgvmb_send_submit_command_hwqueue(g, args, D, s0) ==
    LET primaries_size == args.num_primaries * sizeof_d3dkmthandle
        cmd_size == sizeof_submitcommandtohwqueue + args.priv_drv_data_size
                    + primaries_size
        msg == init_message(g, "msg", TRUE, cmd_size, ~Deviates(D, "kzalloc", 0))
        s1 == InitMessage(s0, msg)
    IN free_message(
           IF msg.ret # 0 THEN [s1 EXCEPT !.ret = msg.ret]
           ELSE IF \/ primaries_size # 0 /\ Deviates(D, "copy_from_user", 1)
                   \/ /\ args.priv_drv_data_size # 0
                      /\ Deviates(D, "copy_from_user", 2)
           THEN [s1 EXCEPT !.ret = 0 - EINVAL]
           ELSE SubmissionSend(g, msg, "SUBMITCOMMANDTOHWQUEUE",
                               [num_primaries |-> args.num_primaries], D, s1),
           msg)

(***************************************************************************)
(* dxgvmb_send_lock2.  s.objs.alloc is the allocation the handle names,    *)
(* s.objs.data is args->data; an address of 0 is NULL.                     *)
(***************************************************************************)
sizeof_lock2 == 44
LockedAllocation == 19          \* args->allocation
HostCpuVisibleOffset == 20480   \* cpu_visible_buffer_offset in the answer
SysmemAddress == 24576          \* the caller's memory behind a sysmem allocation

Lock2Points ==
    { Point(at) : at \in {"kzalloc", "send", "status", "status_pending",
                          "map", "data"} }

\* dxg_unmap_iospace: the window at the address is gone.
dxg_unmap_iospace(s, address) ==
    [Ev(s, [ev |-> "unmap_iospace", address |-> address])
        EXCEPT !.maps = @ \ {address}]

\* alloc->cpu_address_refcount--, on an unsigned 32-bit counter.
RefcountDecrement(c) == IF c = 0 THEN U32Large ELSE c - 1

\* if (alloc->cpu_address) ... else ...: args->data is the stored address,
\* or the address of a window mapped now.
Lock2Address(D, s) ==
    LET a == s.objs.alloc
    IN IF a.cpu_address # 0
       THEN [s EXCEPT !.objs.data = a.cpu_address,
                      !.objs.alloc.cpu_address_refcount =
                          IF a.cpu_address_mapped THEN @ + 1 ELSE @]
       ELSE IF Deviates(D, "map", 0)
       THEN [s EXCEPT !.objs.data = 0]
       ELSE [dxg_map_iospace(s, HostCpuVisibleOffset, TRUE)
               EXCEPT !.objs.data = HostCpuVisibleOffset,
                      !.objs.alloc.cpu_address_refcount = 1,
                      !.objs.alloc.cpu_address_mapped = TRUE,
                      !.objs.alloc.cpu_address = HostCpuVisibleOffset]

\* The branch taken when copy_to_user of the address fails.
Lock2CopyFailed(s) ==
    LET c == RefcountDecrement(s.objs.alloc.cpu_address_refcount)
        s1 == [s EXCEPT !.ret = 0 - EINVAL,
                        !.objs.alloc.cpu_address_refcount = c]
    IN IF c = 0
       THEN [dxg_unmap_iospace(s1, s.objs.alloc.cpu_address)
               EXCEPT !.objs.alloc.cpu_address_mapped = FALSE,
                      !.objs.alloc.cpu_address = 0]
       ELSE s1

\* From hmgrtable_lock to hmgrtable_unlock.
Lock2Locked(D, s) ==
    LET l == Ev(s, [ev |-> "hmgrtable_lock"])
        found == [type |-> "DXGALLOCATION", h |-> LockedAllocation] \in l.table
        got == Lock2Address(D, l)
        copied == CopyToUser(got, "data", 0, D)
        body == IF ~found THEN [l EXCEPT !.ret = 0 - EINVAL]
                ELSE IF got.objs.data = 0 THEN [got EXCEPT !.ret = 0 - ENOMEM]
                ELSE IF copied.ret = 0 THEN copied
                ELSE Lock2CopyFailed(copied)
    IN Ev(body, [ev |-> "hmgrtable_unlock"])

dxgvmb_send_lock2(g, D, s0) ==
    LET msg == init_message(g, "msg", TRUE, sizeof_lock2,
                            ~Deviates(D, "kzalloc", 0))
        s1 == InitMessage(s0, msg)
        sent == dxgvmb_send_sync_msg(s1, msg, "LOCK2",
                                     [allocation |-> LockedAllocation],
                                     Deviates(D, "send", 0))
        status == HostStatus(D, "status", "status_pending")
        answered == [HostResponse(sent, status)
                       EXCEPT !.ret = ntstatus2int(status)]
    IN free_message(
           IF msg.ret # 0 THEN [s1 EXCEPT !.ret = msg.ret]
           ELSE IF sent.ret < 0 THEN sent
           ELSE IF answered.ret < 0 THEN answered
           ELSE Lock2Locked(D, answered),
           msg)

\* The allocation before any lock2: backed by a memory window that is not
\* mapped yet, or by the caller's own memory (cpu_address set at creation).
WindowAllocation ==
    [cpu_address |-> 0, cpu_address_mapped |-> FALSE,
     cpu_address_refcount |-> 0]

SysmemAllocation ==
    [cpu_address |-> SysmemAddress, cpu_address_mapped |-> FALSE,
     cpu_address_refcount |-> 0]

\* The state lock2 finds: the handle names a fresh allocation, or a window
\* allocation an earlier lock2 has mapped, or nothing.
Lock2Start(alloc, registered) ==
    [EncStart EXCEPT
        !.objs = [alloc |-> alloc, data |-> 0],
        !.table = IF registered
                  THEN {[type |-> "DXGALLOCATION", h |-> LockedAllocation]}
                  ELSE {},
        !.maps = IF alloc.cpu_address_mapped THEN {alloc.cpu_address} ELSE {}]

MappedAllocation ==
    [cpu_address |-> HostCpuVisibleOffset, cpu_address_mapped |-> TRUE,
     cpu_address_refcount |-> 1]

(***************************************************************************)
(* create_existing_sysmem: the caller's pages are pinned and made the      *)
(* backing store of a host allocation, by one set-existing-store message   *)
(* or, with guest-page mapping negotiated, by set-existing-pages messages. *)
(***************************************************************************)
sizeof_setexistingsysmemstore == 32
sizeof_setexistingsysmempages == 36

max_pfns_in_message ==
    (DXG_MAX_VM_BUS_PACKET_SIZE - sizeof_setexistingsysmempages - PAGE_SIZE)
    \div SIZEOF_U64

ExistingSysmemPoints ==
    { Point(at) : at \in {"vzalloc", "get_user_pages_fast", "kzalloc", "vmap"} }
    \cup { [at |-> at, i |-> i] :
             at \in {"send", "status", "status_pending"}, i \in 1..3 }

\* A chunk that takes all the pages that are left.
PagesToSend_all_left(npages, alloc_offset_in_pages) ==
    npages - alloc_offset_in_pages

\* min(npages - alloc_offset_in_pages, max_pfns_in_message)
PagesToSend(npages, alloc_offset_in_pages) ==
    IF npages - alloc_offset_in_pages < max_pfns_in_message
    THEN npages - alloc_offset_in_pages
    ELSE max_pfns_in_message

\* The while loop; it is [alloc_offset_in_pages, page_in, n] with page_in
\* the index of the next page to describe and n the number of the message.
RECURSIVE SetExistingPagesLoop(_, _, _, _, _)
SetExistingPagesLoop(s, msg, npages, it, D) ==
    IF ~(it.alloc_offset_in_pages < npages) THEN s
    ELSE LET pages_to_send == PagesToSend(npages, it.alloc_offset_in_pages)
             status == IF Deviates(D, "status", it.n) THEN STATUS_NO_MEMORY
                       ELSE IF Deviates(D, "status_pending", it.n)
                       THEN STATUS_PENDING
                       ELSE STATUS_SUCCESS
             sent == dxgvmb_send_sync_msg(
                         s, msg, "SETEXISTINGSYSMEMPAGES",
                         [num_pages |-> pages_to_send,
                          alloc_offset_in_pages |-> it.alloc_offset_in_pages,
                          pfn_from |-> it.page_in],
                         Deviates(D, "send", it.n))
             t == IF sent.ret < 0 THEN sent
                  ELSE [HostResponse(sent, status)
                          EXCEPT !.ret = ntstatus2int(status)]
         IN IF t.ret < 0 THEN t
            ELSE SetExistingPagesLoop(
                     t, msg, npages,
                     [alloc_offset_in_pages |->
                          it.alloc_offset_in_pages + pages_to_send,
                      page_in |-> it.page_in + pages_to_send,
                      n |-> it.n + 1],
                     D)

SetExistingStore(g, D, s0) ==
    LET msg == init_message(g, "msg", TRUE, sizeof_setexistingsysmemstore,
                            ~Deviates(D, "kzalloc", 0))
        s1 == InitMessage(s0, msg)
    IN free_message(
           IF msg.ret # 0 THEN [s1 EXCEPT !.ret = msg.ret]
           ELSE IF Deviates(D, "vmap", 0) THEN [s1 EXCEPT !.ret = 0 - ENOMEM]
           ELSE dxgvmb_send_sync_msg_ntstatus(
                    s1, msg, "SETEXISTINGSYSMEMSTORE", [gpadl |-> 0],
                    Deviates(D, "send", 1),
                    IF Deviates(D, "status", 1) THEN STATUS_NO_MEMORY
                    ELSE STATUS_SUCCESS),
           msg)

SetExistingPages(g, npages, D, s0) ==
    LET msg == init_message(g, "msg", TRUE,
                            sizeof_setexistingsysmempages
                            + max_pfns_in_message * SIZEOF_U64,
                            ~Deviates(D, "kzalloc", 0))
        s1 == InitMessage(s0, msg)
    IN free_message(
           IF msg.ret # 0 THEN [s1 EXCEPT !.ret = msg.ret]
           ELSE SetExistingPagesLoop(
                    s1, msg, npages,
                    [alloc_offset_in_pages |-> 0, page_in |-> 0, n |-> 1], D),
           msg)

\* vzalloc of no bytes returns NULL.
create_existing_sysmem(g, map_guest_pages_enabled, npages, D, s0) ==
    IF npages = 0 \/ Deviates(D, "vzalloc", 0)
    THEN [s0 EXCEPT !.ret = 0 - ENOMEM]
    ELSE IF Deviates(D, "get_user_pages_fast", 0)
    THEN [s0 EXCEPT !.ret = 0 - ENOMEM]
    ELSE IF ~map_guest_pages_enabled THEN SetExistingStore(g, D, [s0 EXCEPT !.ret = 0])
    ELSE SetExistingPages(g, npages, D, [s0 EXCEPT !.ret = 0])

(***************************************************************************)
(* dxgvmb_send_create_nt_shared_object                                     *)
(***************************************************************************)
NewSharedObject ==
    [process |-> [host_handle |-> HostProcess], shared_handle |-> 0]

\* The transport writes the answer into the caller's *shared_handle.
dxgvmb_send_create_nt_shared_object(g, D, s0) ==
    LET msg == init_message(g, "msg", FALSE, sizeof_createntsharedobject,
                            ~Deviates(D, "kzalloc", 0))
        s1 == InitMessage(s0, msg)
        refused == Ev(s1, [ev |-> "acquire_channel_lock", ok |-> FALSE])
        locked == Ev(s1, [ev |-> "acquire_channel_lock", ok |-> TRUE])
        sent == dxgvmb_send_sync_msg(locked, msg, "CREATENTSHAREDOBJECT",
                                     [object |-> HostResource],
                                     Deviates(D, "send", 0))
        shared == IF Deviates(D, "zero_handle", 0) THEN 0 ELSE HostSharedHandle
        answered == [Ev(sent, [ev |-> "response", shared_handle |-> shared])
                       EXCEPT !.objs.shared_handle = shared]
        released == Ev(IF sent.ret < 0 THEN sent ELSE answered,
                       [ev |-> "release_channel_lock"])
    IN IF msg.ret # 0 THEN [s1 EXCEPT !.ret = msg.ret]
       ELSE IF Deviates(D, "acquire_channel_lock", 0)
       THEN free_message([refused EXCEPT !.ret = 0 - ENODEV], msg)
       ELSE IF sent.ret < 0 THEN free_message(released, msg)
       ELSE IF shared = 0
       THEN free_message([released EXCEPT !.ret = 0 - ENOTRECOVERABLE], msg)
       ELSE free_message(released, msg)

(***************************************************************************)
(* dxgvmb_send_open_sync_object_nt.  The message is built with no adapter  *)
(* and sent on the channel the caller passes.                              *)
(***************************************************************************)
sizeof_opensyncobject == 36

HostSyncObject == 18            \* the sync object handle in the host's answer
HostSyncFenceAddress == 12288   \* guest_cpu_physical_address in the answer
HostSyncFenceGpuVa == 16384     \* gpu_virtual_address in the answer

\* The channel argument of the callers in the ioctl front end: a global
\* operation goes out on the global channel.
OpenSyncObjectChannel == "global"

OpenSyncObjectPoints ==
    { Point(at) : at \in {"kzalloc", "acquire_channel_lock", "send", "status",
                          "status_pending", "map"} }

NewSyncObject ==
    [syncobj |-> [mapped_address |-> 0],
     args |-> [sync_object |-> 0, fence_value_cpu_va |-> 0,
               fence_value_gpu_va |-> 0]]

\* From the host's answer to the label cleanup.
OpenSyncObjectDecode(monitored_fence, D, s) ==
    LET s1 == [StoreResponse(s, "sync_object", HostSyncObject)
                 EXCEPT !.objs.args.sync_object = HostSyncObject]
        s2 == dxg_map_iospace(s1, HostSyncFenceAddress, ~Deviates(D, "map", 0))
    IN IF ~monitored_fence THEN s1
       ELSE IF Deviates(D, "map", 0) THEN [s2 EXCEPT !.ret = 0 - ENOMEM]
       ELSE [StoreResponse(s2, "gpu_virtual_address", HostSyncFenceGpuVa)
               EXCEPT !.objs.args.fence_value_cpu_va = HostSyncFenceAddress,
                      !.objs.args.fence_value_gpu_va = HostSyncFenceGpuVa,
                      !.objs.syncobj.mapped_address = HostSyncFenceAddress]

\* An encoder that leaves for cleanup on a failed send with the lock held.
dxgvmb_send_open_sync_object_nt_early_return(g, channel, monitored_fence, D, s0) ==
    LET msg == init_message(g, "msg", FALSE, sizeof_opensyncobject,
                            ~Deviates(D, "kzalloc", 0))
        s1 == InitMessage(s0, msg)
        refused == Ev(s1, [ev |-> "acquire_channel_lock", ok |-> FALSE])
        locked == Ev(s1, [ev |-> "acquire_channel_lock", ok |-> TRUE])
        sent == dxgvmb_send_sync_msg(locked, [msg EXCEPT !.channel = channel],
                                     "OPENSYNCOBJECT",
                                     [monitored_fence |-> monitored_fence],
                                     Deviates(D, "send", 0))
        released == Ev(sent, [ev |-> "release_channel_lock"])
        status == HostStatus(D, "status", "status_pending")
        answered == [HostResponse(released, status)
                       EXCEPT !.ret = ntstatus2int(status)]
    IN IF msg.ret # 0 THEN [s1 EXCEPT !.ret = msg.ret]
       ELSE IF Deviates(D, "acquire_channel_lock", 0)
       THEN free_message([refused EXCEPT !.ret = 0 - ENODEV], msg)
       ELSE IF sent.ret < 0 THEN free_message(sent, msg)
       ELSE IF answered.ret < 0 THEN free_message(answered, msg)
       ELSE free_message(OpenSyncObjectDecode(monitored_fence, D, answered), msg)

dxgvmb_send_open_sync_object_nt(g, channel, monitored_fence, D, s0) ==
    LET msg == init_message(g, "msg", FALSE, sizeof_opensyncobject,
                            ~Deviates(D, "kzalloc", 0))
        s1 == InitMessage(s0, msg)
        refused == Ev(s1, [ev |-> "acquire_channel_lock", ok |-> FALSE])
        locked == Ev(s1, [ev |-> "acquire_channel_lock", ok |-> TRUE])
        sent == dxgvmb_send_sync_msg(locked, [msg EXCEPT !.channel = channel],
                                     "OPENSYNCOBJECT",
                                     [monitored_fence |-> monitored_fence],
                                     Deviates(D, "send", 0))
        released == Ev(sent, [ev |-> "release_channel_lock"])
        status == HostStatus(D, "status", "status_pending")
        answered == [HostResponse(released, status)
                       EXCEPT !.ret = ntstatus2int(status)]
    IN IF msg.ret # 0 THEN [s1 EXCEPT !.ret = msg.ret]
       ELSE IF Deviates(D, "acquire_channel_lock", 0)
       THEN free_message([refused EXCEPT !.ret = 0 - ENODEV], msg)
       ELSE IF sent.ret < 0 THEN free_message(released, msg)
       ELSE IF answered.ret < 0 THEN free_message(answered, msg)
       ELSE free_message(OpenSyncObjectDecode(monitored_fence, D, answered), msg)

(***************************************************************************)
(* The other encoders that go out under the global channel lock.  None is  *)
(* given an adapter; each builds its message, takes the lock, sends, and   *)
(* releases the lock before the label cleanup.                             *)
(***************************************************************************)
sizeof_setiospaceregion == 40
sizeof_destroyprocess == 20
sizeof_destroyntsharedobject == 24
sizeof_destroysyncobject == 24
sizeof_shareobjectwithhost == 36
sizeof_presentvirtual == 48

HostVailNtHandle == 21      \* vail_nt_handle in the host's answer

GlobalLockPoints ==
    { Point(at) : at \in {"kzalloc", "copy_from_user", "acquire_channel_lock",
                          "send", "status", "status_pending"} }

\* init_message, dxgglobal_acquire_channel_lock, the command filled in,
\* dxgvmb_send_sync_msg_ntstatus, dxgglobal_release_channel_lock, cleanup.
\* The four encoders below differ in the command they send only.
SendUnderChannelLock(g, size, cmd, payload, D, s0) ==
    LET msg == init_message(g, "msg", FALSE, size, ~Deviates(D, "kzalloc", 0))
        s1 == InitMessage(s0, msg)
        refused == Ev(s1, [ev |-> "acquire_channel_lock", ok |-> FALSE])
        locked == Ev(s1, [ev |-> "acquire_channel_lock", ok |-> TRUE])
        status == HostStatus(D, "status", "status_pending")
        sent == dxgvmb_send_sync_msg_ntstatus(locked, msg, cmd, payload,
                                              Deviates(D, "send", 0), status)
        answered == IF Deviates(D, "send", 0) THEN sent
                    ELSE [HostResponse(sent, status) EXCEPT !.ret = sent.ret]
    IN IF msg.ret # 0 THEN [s1 EXCEPT !.ret = msg.ret]
       ELSE IF Deviates(D, "acquire_channel_lock", 0)
       THEN free_message([refused EXCEPT !.ret = 0 - ENODEV], msg)
       ELSE free_message(Ev(answered, [ev |-> "release_channel_lock"]), msg)

dxgvmb_send_set_iospace_region(g, start, len, shared_mem_gpadl, D, s0) ==
    SendUnderChannelLock(g, sizeof_setiospaceregion, "SETIOSPACEREGION",
                         [start |-> start, length |-> len,
                          shared_page_gpadl |-> shared_mem_gpadl], D, s0)

dxgvmb_send_destroy_process(g, process, D, s0) ==
    SendUnderChannelLock(g, sizeof_destroyprocess, "DESTROYPROCESS",
                         [process |-> process], D, s0)

dxgvmb_send_destroy_nt_shared_object(g, shared_handle, D, s0) ==
    SendUnderChannelLock(g, sizeof_destroyntsharedobject,
                         "DESTROYNTSHAREDOBJECT",
                         [shared_handle |-> shared_handle], D, s0)

dxgvmb_send_destroy_sync_object(g, sync_object, D, s0) ==
    SendUnderChannelLock(g, sizeof_destroysyncobject, "DESTROYSYNCOBJECT",
                         [sync_object |-> sync_object], D, s0)

NewSharedWithHost == [args |-> [object_vail_nt_handle |-> 0]]

\* The answer's status is read after the lock is released.
dxgvmb_send_share_object_with_host(g, D, s0) ==
    LET msg == init_message(g, "msg", FALSE, sizeof_shareobjectwithhost,
                            ~Deviates(D, "kzalloc", 0))
        s1 == InitMessage(s0, msg)
        refused == Ev(s1, [ev |-> "acquire_channel_lock", ok |-> FALSE])
        locked == Ev(s1, [ev |-> "acquire_channel_lock", ok |-> TRUE])
        sent == dxgvmb_send_sync_msg(locked, msg, "SHAREOBJECTWITHHOST",
                                     [object_handle |-> HostResource],
                                     Deviates(D, "send", 0))
        released == Ev(sent, [ev |-> "release_channel_lock"])
        status == HostStatus(D, "status", "status_pending")
        answered == [HostResponse(released, status)
                       EXCEPT !.ret = ntstatus2int(status)]
    IN IF msg.ret # 0 THEN [s1 EXCEPT !.ret = msg.ret]
       ELSE IF Deviates(D, "acquire_channel_lock", 0)
       THEN free_message([refused EXCEPT !.ret = 0 - ENODEV], msg)
       ELSE IF sent.ret # 0 THEN free_message(released, msg)
       ELSE IF ~NT_SUCCESS(status) THEN free_message(answered, msg)
       ELSE free_message(
                [StoreResponse(answered, "vail_nt_handle", HostVailNtHandle)
                   EXCEPT !.ret = 0,
                          !.objs.args.object_vail_nt_handle = HostVailNtHandle],
                msg)

\* cmd_size = sizeof(struct dxgkvmb_command_presentvirtual) +
\* args->private_data_size; the private data are copied in before the lock
\* is asked for.
dxgvmb_send_present_virtual(g, private_data_size, D, s0) ==
    LET msg == init_message(g, "msg", FALSE,
                            sizeof_presentvirtual + private_data_size,
                            ~Deviates(D, "kzalloc", 0))
        s1 == InitMessage(s0, msg)
        copied == IF private_data_size # 0
                  THEN Ev(s1, [ev |-> "copy_from_user",
                               ok |-> ~Deviates(D, "copy_from_user", 0)])
                  ELSE s1
        refused == Ev(copied, [ev |-> "acquire_channel_lock", ok |-> FALSE])
        locked == Ev(copied, [ev |-> "acquire_channel_lock", ok |-> TRUE])
        status == HostStatus(D, "status", "status_pending")
        sent == dxgvmb_send_sync_msg_ntstatus(
                    locked, msg, "PRESENTVIRTUAL",
                    [private_data_size |-> private_data_size],
                    Deviates(D, "send", 0), status)
        answered == IF Deviates(D, "send", 0) THEN sent
                    ELSE [HostResponse(sent, status) EXCEPT !.ret = sent.ret]
    IN IF msg.ret # 0 THEN [s1 EXCEPT !.ret = msg.ret]
       ELSE IF private_data_size # 0 /\ Deviates(D, "copy_from_user", 0)
       THEN free_message([copied EXCEPT !.ret = 0 - EINVAL], msg)
       ELSE IF Deviates(D, "acquire_channel_lock", 0)
       THEN free_message([refused EXCEPT !.ret = 0 - ENODEV], msg)
       ELSE free_message(Ev(answered, [ev |-> "release_channel_lock"]), msg)

(***************************************************************************)
(* init_message_res and dxgvmb_send_get_stdalloc_data                      *)
(***************************************************************************)
\* (result_size + 7) & ~7
ResSize(result_size) == ((result_size + 7) \div 8) * 8

\* The command and the response share one heap buffer.  The channel is
\* read off the adapter, which every caller passes.  res_size starts at 0
\* in every caller (msg = {.hdr = NULL}); res_at is msg->res as an offset
\* into the buffer and alloc the number of bytes asked of kzalloc.
init_message_res(g, name, adapter, size, result_size, kzalloc_ok) ==
    LET sz == IF use_ext_header(g) THEN size + sizeof_dxgvmb_ext_header ELSE size
        channel == IF g.async_msg_enabled THEN "global"
                   ELSE IF adapter THEN "adapter" ELSE "invalid"
        res_size == ResSize(result_size)
    IN IF kzalloc_ok
       THEN [name |-> name, hdr |-> "heap", size |-> sz,
             channel |-> channel, ret |-> 0, res_size |-> res_size,
             res_at |-> sz, alloc |-> sz + res_size]
       ELSE [name |-> name, hdr |-> "NULL", size |-> sz,
             channel |-> "unset", ret |-> 0 - ENOMEM, res_size |-> res_size,
             alloc |-> sz + res_size]

StdallocPoints ==
    { Point(at) : at \in {"kzalloc", "send", "status", "status_pending"} }

NewStdallocBuffers(args) ==
    [alloc_priv_driver_size |-> args.alloc_priv_driver_size,
     res_priv_data_size |-> args.res_priv_data_size,
     priv_alloc_data |-> "unwritten", priv_res_data |-> "unwritten"]

\* From the host's answer to the label cleanup; ret holds the translated
\* status, which is not negative here.
StdallocDecode(args, host, s) ==
    IF \/ /\ args.alloc_priv_driver_size # 0
          /\ host.priv_driver_data_size # args.alloc_priv_driver_size
       \/ /\ args.res_priv_data_size # 0
          /\ host.priv_driver_resource_size # args.res_priv_data_size
    THEN s
    ELSE LET s1 == StoreResponse(
                       StoreResponse(s, "priv_driver_data_size",
                                     host.priv_driver_data_size),
                       "priv_driver_resource_size",
                       host.priv_driver_resource_size)
             s2 == [s1 EXCEPT
                      !.objs.alloc_priv_driver_size = host.priv_driver_data_size,
                      !.objs.res_priv_data_size = host.priv_driver_resource_size]
             s3 == IF args.priv_alloc_data
                   THEN [StoreResponse(s2, "priv_alloc_data",
                                       host.priv_driver_data_size)
                           EXCEPT !.objs.priv_alloc_data = "written"]
                   ELSE s2
         IN IF args.priv_res_data
            THEN [StoreResponse(s3, "priv_res_data",
                                host.priv_driver_resource_size)
                    EXCEPT !.objs.priv_res_data = "written"]
            ELSE s3

dxgvmb_send_get_stdalloc_data(g, args, host, D, s0) ==
    LET result_size == sizeof_getstandardallocprivdata_return
                       + (IF args.priv_alloc_data
                          THEN args.alloc_priv_driver_size ELSE 0)
                       + (IF args.priv_res_data
                          THEN args.res_priv_data_size ELSE 0)
        msg == init_message_res(g, "msg", TRUE, sizeof_getstandardallocprivdata,
                                result_size, ~Deviates(D, "kzalloc", 0))
        s1 == InitMessage(s0, msg)
        sent == dxgvmb_send_sync_msg(
                    s1, msg, "DDIGETSTANDARDALLOCATIONDRIVERDATA",
                    [alloc_type |-> args.alloctype,
                     result_size |-> ResSize(result_size)],
                    Deviates(D, "send", 0))
        status == HostStatus(D, "status", "status_pending")
        answered == [HostResponse(sent, status)
                       EXCEPT !.ret = ntstatus2int(status)]
    IN free_message(
           IF msg.ret # 0 THEN [s1 EXCEPT !.ret = msg.ret]
           ELSE IF args.alloctype # "GDISURFACE" THEN [s1 EXCEPT !.ret = 0]
           ELSE IF sent.ret < 0 THEN sent
           ELSE IF answered.ret < 0 THEN answered
           ELSE StdallocDecode(args, host, answered),
           msg)

(***************************************************************************)
(* SpecStatus: the status translator on a bounded set of status words.     *)
(***************************************************************************)
MaxSmallStatus == 30

DefinedStatus ==
    { STATUS_SUCCESS, STATUS_TIMEOUT, STATUS_PENDING,
      STATUS_NOT_IMPLEMENTED, STATUS_INVALID_HANDLE, STATUS_INVALID_PARAMETER,
      STATUS_NO_MEMORY, STATUS_ILLEGAL_INSTRUCTION, STATUS_ACCESS_DENIED,
      STATUS_BUFFER_TOO_SMALL, STATUS_OBJECT_TYPE_MISMATCH,
      STATUS_OBJECT_NAME_INVALID, STATUS_OBJECT_NAME_NOT_FOUND,
      STATUS_OBJECT_NAME_COLLISION, STATUS_NOT_SUPPORTED,
      STATUS_DEVICE_REMOVED, STATUS_GRAPHICS_ALLOCATION_BUSY }

StatusWords ==
    DefinedStatus \cup {STATUS_UNSUCCESSFUL}
                  \cup ((0 - MaxSmallStatus) .. MaxSmallStatus)

StatusIdle ==
    /\ status_in = 0
    /\ status_out = 0
    /\ status_done = FALSE

RleIdle ==
    /\ rle_args = None
    /\ rle_res = None

EncIdle ==
    /\ dxgglobal = None
    /\ enc_call = None
    /\ enc_ret = 0
    /\ enc_log = <<>>
    /\ handle_table = {}
    /\ enc_objs = None
    /\ iospace = {}

LockIdle ==
    /\ thread = <<>>
    /\ channel_lock = 0
    /\ in_flight = {}

StatusInit ==
    /\ status_in \in StatusWords
    /\ status_out = 0
    /\ status_done = FALSE
    /\ RleIdle
    /\ EncIdle
    /\ LockIdle

Translate ==
    /\ ~status_done
    /\ status_out' = ntstatus2int(status_in)
    /\ status_done' = TRUE
    /\ UNCHANGED <<status_in, rleVars, encVars, lockVars>>

StatusNext == Translate

SpecStatus == StatusInit /\ [][StatusNext]_vars

(***************************************************************************)
(* C1: ntstatus2int returns a success status unchanged (positive values    *)
(* such as the pending code included), the negated POSIX code of the       *)
(* documented table for a listed failure status, -EINVAL for any other     *)
(* failure status, and a negative value exactly for the non-success words. *)
(***************************************************************************)
DocumentedCode(v) ==
    CASE v = STATUS_OBJECT_NAME_COLLISION -> EEXIST
      [] v = STATUS_NO_MEMORY -> ENOMEM
      [] v = STATUS_INVALID_PARAMETER -> EINVAL
      [] v \in {STATUS_OBJECT_NAME_INVALID, STATUS_OBJECT_NAME_NOT_FOUND} -> ENOENT
      [] v = STATUS_TIMEOUT -> EAGAIN
      [] v = STATUS_BUFFER_TOO_SMALL -> EOVERFLOW
      [] v = STATUS_DEVICE_REMOVED -> ENODEV
      [] v = STATUS_ACCESS_DENIED -> EACCES
      [] v = STATUS_NOT_SUPPORTED -> EPERM
      [] v = STATUS_ILLEGAL_INSTRUCTION -> EOPNOTSUPP
      [] v = STATUS_INVALID_HANDLE -> EBADF
      [] v = STATUS_GRAPHICS_ALLOCATION_BUSY -> EINPROGRESS
      [] v = STATUS_OBJECT_TYPE_MISMATCH -> EPROTOTYPE
      [] v = STATUS_NOT_IMPLEMENTED -> EPERM
      [] OTHER -> EINVAL

PageCounts == (0 .. MaxPages) \cup {U32Words - 1}

PinnedTotal(counts) ==
    LET RECURSIVE Tot(_)
        Tot(n) == IF n = 0 THEN 0
                  ELSE Tot(n - 1) + (IF counts[n] <= MaxPages THEN counts[n] ELSE 0)
    IN Tot(Len(counts))

\* The frames of allocation k: the slice of one frame list that follows
\* the slices of the allocations before it.
FrameSlice(frames, counts, k) ==
    IF counts[k] > MaxPages THEN <<>>
    ELSE LET off == PinnedTotal(SubSeq(counts, 1, k - 1))
         IN [j \in 1..counts[k] |-> frames[off + j]]

\* The allocation lists of at most maxn allocations.
RleAllocInputs(maxn) ==
    { [k \in 1..Len(counts) |->
          [priv_drv_data_size |-> priv[k],
           size |-> [pages |-> counts[k], rem |-> IF counts[k] <= MaxPages THEN rem ELSE 0],
           pages |-> FrameSlice(frames, counts, k)]] :
      <<counts, priv, rem, frames>> \in
         UNION { UNION { { <<c, pr, r, f>> :
                              pr \in [1..n -> {0, 1}],
                              r \in {0, 1},
                              f \in [1..PinnedTotal(c) -> 1..MaxFrame] } :
                         c \in { cc \in [1..n -> PageCounts] :
                                    PinnedTotal(cc) <= MaxPages } } :
                 n \in 1..maxn } }

\* At most one allocation's pinning fails.
RleFailures(n) ==
    {[k \in 1..n |-> "ok"]} \cup
    { [k \in 1..n |-> IF k = at THEN kd ELSE "ok"] :
        at \in 1..n, kd \in {"vzalloc", "gup"} }

RleSizes(allocs) == [k \in 1..Len(allocs) |-> allocs[k].size]

RleInit ==
    /\ StatusIdle
    /\ EncIdle
    /\ LockIdle
    /\ \E allocs \in RleAllocInputs(MaxAllocs) :
         \E pin \in RleFailures(Len(allocs)) :
            rle_args = [allocs |-> allocs, pin |-> pin]
    /\ rle_res = None

RleEncode ==
    /\ rle_res = None
    /\ rle_res' = copy_sysmem_pages_rle_data(
                      rle_args.allocs, rle_args.pin,
                      calculate_max_rle_data_size(RleSizes(rle_args.allocs)))
    /\ UNCHANGED <<rle_args, statusVars, encVars, lockVars>>

RleNext == RleEncode

SpecRle == RleInit /\ [][RleNext]_vars

RECURSIVE SumRunLengths(_, _, _)
SumRunLengths(res, k, n) ==
    IF n = 0 THEN 0
    ELSE SumRunLengths(res, k, n - 1)
         + (IF res.owner[n] = k THEN RecordSizeField(res.dest[n]) + 1 ELSE 0)

RecordsOf(res, k) == { n \in 1..Len(res.dest) : res.owner[n] = k }

\* The allocations whose encoding ran to its end.
RleCompleted(res) ==
    IF res.ret = 0 THEN 1..Len(res.rle_size) ELSE 1..(res.i - 1)

RleEncoded(a) == a.priv_drv_data_size # 0 /\ SizeBytesPositive(a.size)

(***************************************************************************)
(* C7: for every allocation that copy_sysmem_pages_rle_data encoded, the   *)
(* records written for it cover its page list exactly (the size fields     *)
(* plus one add up to the number of pages) and its sysmem_pages_rle_size   *)
(* is the number of records written for it.                                *)
(***************************************************************************)
C7_RleCoversPages ==
    rle_res # None =>
        \A k \in RleCompleted(rle_res) :
            /\ rle_res.rle_size[k] = Cardinality(RecordsOf(rle_res, k))
            /\ SumRunLengths(rle_res, k, Len(rle_res.dest))
                 = (IF RleEncoded(rle_args.allocs[k])
                    THEN Len(rle_args.allocs[k].pages) ELSE 0)

\* A successful encoding in which a run of contiguous frames was cut at the
\* largest run length a record can hold.
C7_Witness ==
    /\ rle_res # None
    /\ rle_res.ret = 0
    /\ \E k \in 1..Len(rle_args.allocs) :
          /\ RleEncoded(rle_args.allocs[k])
          /\ Len(rle_args.allocs[k].pages) > PAGE_SIZE
          /\ rle_res.rle_size[k] >= 2
          /\ \E n \in RecordsOf(rle_res, k) :
                RecordSizeField(rle_res.dest[n]) = PAGE_SIZE - 1

(***************************************************************************)
(* SpecEnc: one call of an encoder, from a driver whose protocol version   *)
(* and asynchronous-message switch are any of their values, with an        *)
(* environment that deviates from the nominal run at most MaxFaults times. *)
(***************************************************************************)
DxgGlobals ==
    [vmbus_ver : {DXGK_VMBUS_INTERFACE_VERSION - 1, DXGK_VMBUS_INTERFACE_VERSION},
     async_msg_enabled : BOOLEAN]

EncInit ==
    /\ StatusIdle
    /\ RleIdle
    /\ LockIdle
    /\ dxgglobal \in DxgGlobals
    /\ enc_call = None
    /\ enc_ret = 0
    /\ enc_log = <<>>
    /\ handle_table = {}
    /\ enc_objs = None
    /\ iospace = {}

EncReturn(call, r) ==
    /\ enc_call' = call
    /\ enc_ret' = r.ret
    /\ enc_log' = r.log
    /\ handle_table' = r.table
    /\ enc_objs' = r.objs
    /\ iospace' = r.maps
    /\ UNCHANGED <<dxgglobal, statusVars, rleVars, lockVars>>

\* Handle counts up to the first that no longer fits a packet.
MakeResidentCounts ==
    (1 .. MaxAllocs) \cup
    { (DXG_MAX_VM_BUS_PACKET_SIZE - sizeof_makeresident) \div sizeof_d3dkmthandle + k :
        k \in 0..2 }

CreateProcess ==
    /\ enc_call = None
    /\ \E D \in DeviationSets(CreateProcessPoints, MaxFaults) :
         EncReturn([op |-> "create_process", args |-> None],
                   dxgvmb_send_create_process(
                       dxgglobal, D, [EncStart EXCEPT !.objs = NewProcess]))

MakeResident ==
    /\ enc_call = None
    /\ \E n \in MakeResidentCounts :
         \E D \in DeviationSets(MakeResidentPoints, MaxFaults) :
            LET args == [alloc_count |-> n]
            IN EncReturn([op |-> "make_resident", args |-> args],
                         dxgvmb_send_make_resident(dxgglobal, args, D, EncStart))

OpenAdapter ==
    /\ enc_call = None
    /\ \E D \in DeviationSets(TypedResponsePoints, MaxFaults) :
         EncReturn([op |-> "open_adapter", args |-> None],
                   dxgvmb_send_open_adapter(
                       dxgglobal, D, [EncStart EXCEPT !.objs = NewAdapter]))

QueryClockCalibration ==
    /\ enc_call = None
    /\ \E D \in DeviationSets(TypedResponsePoints, MaxFaults) :
         EncReturn([op |-> "query_clock_calibration", args |-> None],
                   dxgvmb_send_query_clock_calibration(dxgglobal, D, EncStart))

ReserveGpuVa ==
    /\ enc_call = None
    /\ \E D \in DeviationSets(TypedResponsePoints, MaxFaults) :
         \E garbage \in StackGarbage :
            EncReturn([op |-> "reserve_gpu_va", args |-> None],
                      dxgvmb_send_reserve_gpu_va(dxgglobal, garbage, D, EncStart))

CreateNtSharedObject ==
    /\ enc_call = None
    /\ \E D \in DeviationSets(CreateProcessPoints, MaxFaults) :
         EncReturn([op |-> "create_nt_shared_object", args |-> None],
                   dxgvmb_send_create_nt_shared_object(
                       dxgglobal, D, [EncStart EXCEPT !.objs = NewSharedObject]))

SubmitCommand ==
    /\ enc_call = None
    /\ \E args \in [num_history_buffers : {0, 1}, priv_drv_data_size : {0, 8}] :
         \E D \in DeviationSets(SubmissionPoints, MaxFaults) :
            EncReturn([op |-> "submit_command", args |-> args],
                      dxgvmb_send_submit_command(dxgglobal, args, D, EncStart))

\* An object count whose byte size no longer fits 32 bits.
WrappingCount == 2 ^ 30 + 1

SignalSyncObjectArgs ==
    [object_count : {1, 2, WrappingCount}, context : {0, HostContext},
     context_count : {0, 1}, fences : BOOLEAN, fence_count : {1, 2},
     user_address : BOOLEAN]

SignalSyncObject ==
    /\ enc_call = None
    /\ \E args \in SignalSyncObjectArgs :
         \E D \in DeviationSets(SubmissionPoints, MaxFaults) :
            EncReturn([op |-> "signal_sync_object", args |-> args],
                      dxgvmb_send_signal_sync_object(dxgglobal, args, D, EncStart))

WaitSyncObjectGpu ==
    /\ enc_call = None
    /\ \E n \in {0, 1, 2, D3DDDI_MAX_OBJECT_WAITED_ON,
                  D3DDDI_MAX_OBJECT_WAITED_ON + 1} :
         \E D \in DeviationSets(SubmissionPoints, MaxFaults) :
            LET args == [object_count |-> n]
            IN EncReturn([op |-> "wait_sync_object_gpu", args |-> args],
                         dxgvmb_send_wait_sync_object_gpu(
                             dxgglobal, args, D, EncStart))

SubmitCommandHwqueue ==
    /\ enc_call = None
    /\ \E args \in [num_primaries : {0, 1}, priv_drv_data_size : {0, 8}] :
         \E D \in DeviationSets(SubmissionPoints, MaxFaults) :
            EncReturn([op |-> "submit_command_hwqueue", args |-> args],
                      dxgvmb_send_submit_command_hwqueue(
                          dxgglobal, args, D, EncStart))

\* Page counts around one and two full messages.
ExistingSysmemPages ==
    {0, 1, max_pfns_in_message, max_pfns_in_message + 1,
     2 * max_pfns_in_message, 2 * max_pfns_in_message + 1}

CreateExistingSysmem ==
    /\ enc_call = None
    /\ \E map_guest_pages_enabled \in BOOLEAN, npages \in ExistingSysmemPages :
         \E D \in DeviationSets(ExistingSysmemPoints, MaxFaults) :
            EncReturn([op |-> "create_existing_sysmem",
                       args |-> [map_guest_pages_enabled |-> map_guest_pages_enabled,
                                 npages |-> npages]],
                      create_existing_sysmem(dxgglobal, map_guest_pages_enabled,
                                             npages, D, EncStart))

Lock2 ==
    /\ enc_call = None
    /\ \E alloc \in {WindowAllocation, SysmemAllocation, MappedAllocation},
          registered \in BOOLEAN :
         \E D \in DeviationSets(Lock2Points, MaxFaults) :
            EncReturn([op |-> "lock2", args |-> [allocation |-> LockedAllocation]],
                      dxgvmb_send_lock2(dxgglobal, D,
                                        Lock2Start(alloc, registered)))

OpenSyncObjectNt ==
    /\ enc_call = None
    /\ \E monitored_fence \in BOOLEAN :
         \E D \in DeviationSets(OpenSyncObjectPoints, MaxFaults) :
            EncReturn([op |-> "open_sync_object_nt",
                       args |-> [monitored_fence |-> monitored_fence]],
                      dxgvmb_send_open_sync_object_nt(
                          dxgglobal, OpenSyncObjectChannel, monitored_fence, D,
                          [EncStart EXCEPT !.objs = NewSyncObject]))

\* The caller asks for the sizes (no buffers), or passes buffers of the
\* sizes it holds; the standard allocation types are the GDI surface and
\* one of the types the encoder does not serve.
StdallocArgs ==
    [alloctype : {"GDISURFACE", "STAGINGSURFACE"},
     alloc_priv_driver_size : {0, 8},
     res_priv_data_size : {0, 8},
     priv_alloc_data : BOOLEAN,
     priv_res_data : BOOLEAN]

StdallocHostSizes ==
    [priv_driver_data_size : {8, 16}, priv_driver_resource_size : {8, 16}]

GetStdallocData ==
    /\ enc_call = None
    /\ \E args \in StdallocArgs, host \in StdallocHostSizes :
         \E D \in DeviationSets(StdallocPoints, MaxFaults) :
            EncReturn([op |-> "get_stdalloc_data", args |-> args,
                       host |-> host],
                      dxgvmb_send_get_stdalloc_data(
                          dxgglobal, args, host, D,
                          [EncStart EXCEPT !.objs = NewStdallocBuffers(args)]))

PrivDrvDataSizes ==
    {0, 8, 32, DXG_MAX_VM_BUS_PACKET_SIZE, DXG_MAX_VM_BUS_PACKET_SIZE + 1}

CreateContext ==
    /\ enc_call = None
    /\ \E p \in PrivDrvDataSizes :
         \E D \in DeviationSets(CreateContextPoints, MaxFaults) :
            LET args == [priv_drv_data_size |-> p]
            IN EncReturn([op |-> "create_context", args |-> args],
                         dxgvmb_send_create_context(dxgglobal, args, D, EncStart))

CreateHwqueue ==
    /\ enc_call = None
    /\ \E p \in PrivDrvDataSizes :
         \E D \in DeviationSets(CreateHwqueuePoints, MaxFaults) :
            LET args == [priv_drv_data_size |-> p]
            IN EncReturn([op |-> "create_hwqueue", args |-> args],
                         dxgvmb_send_create_hwqueue(
                             dxgglobal, args, D,
                             [EncStart EXCEPT !.objs = NewHwqueue]))

CreateAllocationPoints ==
    { Point(at) : at \in
        {"vzalloc_result", "vzalloc_sizes", "gas_kzalloc", "gas_send",
         "gas_count", "gas_status", "gas_pending", "kzalloc",
         "copy_runtime_data", "copy_priv_drv_data", "send", "status",
         "status_pending", "destroy_kzalloc", "resource", "global_share",
         "assign_resource", "destroy_send", "destroy_status"} }
    \cup { [at |-> at, i |-> i] :
             at \in {"gas_copy_from_user", "copy_alloc_priv_drv_data",
                     "pin_vzalloc", "pin_gup", "priv_drv_data", "allocation",
                     "assign_allocation"},
             i \in 1..MaxAllocs }

\* resource: none, one that exists, or one this call creates.
ResourceModes ==
    { [create_resource |-> FALSE, resource_object |-> FALSE, resource |-> 0],
      [create_resource |-> FALSE, resource_object |-> TRUE,
       resource |-> ExistingResource],
      [create_resource |-> TRUE, resource_object |-> TRUE, resource |-> 0] }

CreateAllocationArgs ==
    { [alloc_count |-> Len(ai), alloc_info |-> ai,
       private_runtime_data_size |-> rt, priv_drv_data_size |-> pd,
       create_resource |-> rm.create_resource,
       resource_object |-> rm.resource_object, resource |-> rm.resource,
       device |-> DeviceHandle] :
      ai \in UNION { [1..n -> [sysmem : BOOLEAN, priv_drv_data_size : {0, 8}]] :
                       n \in 1..MaxAllocs },
      rt \in {0, DXG_MAX_VM_BUS_PACKET_SIZE - 1, DXG_MAX_VM_BUS_PACKET_SIZE},
      pd \in {0, 8},
      rm \in ResourceModes }

\* What the host reports for one allocation and the frames behind it:
\* nothing, a page and a bit, two pages apart, and a size near the one at
\* which the byte budget wraps.
HostSizeSamples ==
    { [size |-> [pages |-> 0, rem |-> 0], pages |-> <<>>],
      [size |-> [pages |-> 1, rem |-> 1], pages |-> <<2>>],
      [size |-> [pages |-> 2, rem |-> 0], pages |-> <<1, 3>>],
      [size |-> [pages |-> U32Words - 1, rem |-> 0], pages |-> <<>>] }

HostAnswers(args) ==
    IF \A i \in 1..args.alloc_count : args.alloc_info[i].sysmem
    THEN [1..args.alloc_count -> HostSizeSamples]
    ELSE { [i \in 1..args.alloc_count |->
              [size |-> [pages |-> 0, rem |-> 0], pages |-> <<>>]] }

NewAllocationObjects(args) ==
    [dxgalloc |-> [i \in 1..args.alloc_count |->
                      [alloc_handle |-> 0, handle_valid |-> FALSE,
                       state |-> "live"]],
     resource |-> [present |-> args.resource_object, handle |-> args.resource,
                   handle_valid |-> args.resource # 0, state |-> "live"],
     rle |-> None,
     sysmem_pages_rle_limit |-> 0]

\* The entries the table holds before the call.
TableBefore(args) ==
    IF args.resource # 0 THEN {[type |-> "DXGRESOURCE", h |-> args.resource]}
    ELSE {}

CreateAllocation ==
    /\ enc_call = None
    /\ \E args \in CreateAllocationArgs :
         \E host \in HostAnswers(args) :
            \E D \in DeviationSets(CreateAllocationPoints, MaxFaults) :
               EncReturn([op |-> "create_allocation", args |-> args,
                          host |-> host],
                         dxgvmb_send_create_allocation(
                             dxgglobal, args, host, D,
                             [EncStart EXCEPT !.objs = NewAllocationObjects(args),
                                              !.table = TableBefore(args)]))

SetIospaceRegion ==
    /\ enc_call = None
    /\ \E D \in DeviationSets(GlobalLockPoints, MaxFaults) :
         EncReturn([op |-> "set_iospace_region", args |-> None],
                   dxgvmb_send_set_iospace_region(
                       dxgglobal, 0, 2 * PAGE_SIZE, 0, D, EncStart))

DestroyProcess ==
    /\ enc_call = None
    /\ \E D \in DeviationSets(GlobalLockPoints, MaxFaults) :
         EncReturn([op |-> "destroy_process", args |-> None],
                   dxgvmb_send_destroy_process(dxgglobal, HostProcess, D,
                                               EncStart))

DestroyNtSharedObject ==
    /\ enc_call = None
    /\ \E D \in DeviationSets(GlobalLockPoints, MaxFaults) :
         EncReturn([op |-> "destroy_nt_shared_object", args |-> None],
                   dxgvmb_send_destroy_nt_shared_object(
                       dxgglobal, HostSharedHandle, D, EncStart))

DestroySyncObject ==
    /\ enc_call = None
    /\ \E D \in DeviationSets(GlobalLockPoints, MaxFaults) :
         EncReturn([op |-> "destroy_sync_object", args |-> None],
                   dxgvmb_send_destroy_sync_object(dxgglobal, HostSyncObject,
                                                   D, EncStart))

ShareObjectWithHost ==
    /\ enc_call = None
    /\ \E D \in DeviationSets(GlobalLockPoints, MaxFaults) :
         EncReturn([op |-> "share_object_with_host", args |-> None],
                   dxgvmb_send_share_object_with_host(
                       dxgglobal, D,
                       [EncStart EXCEPT !.objs = NewSharedWithHost]))

PresentVirtualSizes == {0, SIZEOF_U64}

PresentVirtual ==
    /\ enc_call = None
    /\ \E private_data_size \in PresentVirtualSizes :
         \E D \in DeviationSets(GlobalLockPoints, MaxFaults) :
            EncReturn([op |-> "present_virtual",
                       args |-> [private_data_size |-> private_data_size]],
                      dxgvmb_send_present_virtual(dxgglobal, private_data_size,
                                                  D, EncStart))

EncNext ==
    \/ OpenAdapter
    \/ QueryClockCalibration
    \/ ReserveGpuVa
    \/ CreateNtSharedObject
    \/ OpenSyncObjectNt
    \/ GetStdallocData
    \/ SubmitCommand
    \/ SignalSyncObject
    \/ WaitSyncObjectGpu
    \/ SubmitCommandHwqueue
    \/ Lock2
    \/ CreateExistingSysmem
    \/ SetIospaceRegion
    \/ DestroyProcess
    \/ DestroyNtSharedObject
    \/ DestroySyncObject
    \/ ShareObjectWithHost
    \/ PresentVirtual
    \/ CreateProcess
    \/ MakeResident
    \/ CreateContext
    \/ CreateHwqueue
    \/ CreateAllocation

SpecEnc == EncInit /\ [][EncNext]_vars

(***************************************************************************)
(* What a finished call did, read off its log.                             *)
(***************************************************************************)
Called(op) == enc_call # None /\ enc_call.op = op

Events(kind) == { k \in 1..Len(enc_log) : enc_log[k].ev = kind }

SendsOf(cmd) == { k \in Events("send") : enc_log[k].cmd = cmd }

\* The events that concern the message called name.
InitOf(name) == { k \in Events("init_message") : enc_log[k].msg.name = name }
FreesOf(name) == { k \in Events("kfree") : enc_log[k].msg.name = name }
UsesOf(name) ==
    { k \in Events("send") \cup Events("use") : enc_log[k].msg.name = name }

MessageNames == { enc_log[k].msg.name : k \in Events("init_message") }

(***************************************************************************)
(* C3: an encoder that takes caller counts or sizes, given an input whose  *)
(* message would exceed the maximum packet size, returns the overflow      *)
(* error after no transport call and before allocating the message (for    *)
(* create-allocation: neither the get-allocation-size nor the              *)
(* create-allocation round trip), and no message larger than the maximum   *)
(* packet size is handed to the transport.                                 *)
(***************************************************************************)
\* The size of the message the caller's counts and sizes ask for.
RequestedSize ==
    CASE Called("make_resident") ->
           (enc_call.args.alloc_count - 1) * sizeof_d3dkmthandle
           + sizeof_makeresident
      [] Called("create_context") ->
           sizeof_createcontextvirtual + enc_call.args.priv_drv_data_size - 1
      [] Called("create_hwqueue") ->
           sizeof_createhwqueue
           + (IF enc_call.args.priv_drv_data_size # 0
              THEN enc_call.args.priv_drv_data_size - 1 ELSE 0)
      [] Called("create_allocation") ->
           sizeof_createallocation
           + enc_call.args.alloc_count * sizeof_createallocation_allocinfo
           + enc_call.args.private_runtime_data_size
           + SumPrivDrvData(enc_call.args.alloc_info, enc_call.args.alloc_count)
           + enc_call.args.priv_drv_data_size
      [] OTHER -> 0

C3_OversizeRejectedFirst ==
    enc_call # None =>
        /\ RequestedSize > DXG_MAX_VM_BUS_PACKET_SIZE =>
              /\ ~Called("create_context") => enc_ret = 0 - EOVERFLOW
              /\ Events("send") = {}
              /\ Events("init_message") = {}
        /\ \A k \in Events("send") :
              enc_log[k].msg.size <= DXG_MAX_VM_BUS_PACKET_SIZE

(***************************************************************************)
(* C4: when create-allocation fails after the host created the             *)
(* allocations (a copy to the caller fails, a handle registration is       *)
(* refused, or the rollback message cannot be built), exactly one          *)
(* destroy-allocation message goes out, carrying the device, the resource  *)
(* and every host allocation handle with assume-not-in-use set, and every  *)
(* handle-table entry this operation registered is removed.                *)
(***************************************************************************)
\* create_local_allocations was entered: the host has created the batch.
LocalPhaseEntered == Called("create_allocation") /\ InitOf("destroy") # {}

LocalPhaseFailure ==
    \/ \E k \in Events("copy_to_user") : ~enc_log[k].ok
    \/ \E k \in Events("assign_handle") : ~enc_log[k].ok
    \/ \E k \in InitOf("destroy") : enc_log[k].msg.hdr = "NULL"

IsCompensatingDestroy(e) ==
    /\ e.payload.built
    /\ e.payload.device = enc_call.args.device
    /\ e.payload.resource = enc_call.args.resource
    /\ e.payload.assume_not_in_use = 1
    /\ e.payload.allocations =
          [i \in 1..enc_call.args.alloc_count |-> HostAllocation(i)]

C4_FailureAfterHostSuccessCompensated ==
    (LocalPhaseEntered /\ LocalPhaseFailure) =>
        /\ Cardinality(SendsOf("DESTROYALLOCATION")) = 1
        /\ \A k \in SendsOf("DESTROYALLOCATION") : IsCompensatingDestroy(enc_log[k])
        /\ handle_table = TableBefore(enc_call.args)

(***************************************************************************)
(* C5: on every failing path of the local phase of create-allocation the   *)
(* rollback first releases the handle-table entries, then sends the        *)
(* destroy message to the host, then destroys the local objects: when the  *)
(* destroy message goes out no handle registered by the call is left for a *)
(* lookup to find.                                                         *)
(***************************************************************************)
ReleaseEvents ==
    Events("dxgallocation_free_handle") \cup Events("dxgresource_free_handle")
      \cup Events("free_handle")

DestroyObjectEvents ==
    Events("dxgallocation_destroy") \cup Events("dxgresource_destroy")

TagsInconsistent(args) ==
    \E i \in 1..args.alloc_count :
        args.alloc_info[i].sysmem # args.alloc_info[1].sysmem

C6_MixedBatchRejected ==
    (Called("create_allocation") /\ TagsInconsistent(enc_call.args)) =>
        /\ enc_ret < 0
        /\ SendsOf("GETALLOCATIONSIZE") = {}
        /\ SendsOf("CREATEALLOCATION") = {}

(***************************************************************************)
(* C8: the bytes of run-length records that create-allocation writes never *)
(* exceed the record region reserved from the sizes get-allocation-size    *)
(* returned, and an encoding that runs into the budget ends in the         *)
(* overflow error with nothing written past the region and no              *)
(* create-allocation message sent.                                         *)
(***************************************************************************)
RleRan == Called("create_allocation") /\ enc_objs.rle # None

C8_RleWithinReservedRegion ==
    RleRan =>
        /\ Len(enc_objs.rle.dest) <= enc_objs.sysmem_pages_rle_limit
        /\ enc_objs.rle.ret = 0 - EOVERFLOW =>
              /\ enc_ret = 0 - EOVERFLOW
              /\ SendsOf("CREATEALLOCATION") = {}

(***************************************************************************)
(* C9: every message buffer is released exactly once on every exit path    *)
(* of its encoder, is not used after its release, and the release frees    *)
(* heap storage only: never the inline buffer, never the buffer of a       *)
(* failed initialisation.                                                  *)
(***************************************************************************)
C9_MessageReleasedOnce ==
    enc_call # None =>
        /\ \A k \in Events("kfree") : enc_log[k].msg.hdr = "heap"
        /\ \A name \in MessageNames :
              /\ Cardinality(InitOf(name)) = 1
              /\ \A k \in InitOf(name) :
                    IF enc_log[k].msg.hdr = "heap"
                    THEN /\ Cardinality(FreesOf(name)) = 1
                         /\ \A f \in FreesOf(name) :
                               /\ k < f
                               /\ \A u \in UsesOf(name) : u < f
                    ELSE FreesOf(name) = {}

\* A create-hwqueue call that failed after the host's answer, with its
\* command on the heap and the nested destroy message in the inline buffer.
C9_Witness ==
    /\ Called("create_hwqueue")
    /\ enc_ret < 0
    /\ \E k \in InitOf("msg") : enc_log[k].msg.hdr = "heap"
    /\ \E k \in InitOf("destroy") : enc_log[k].msg.hdr = "msg_on_stack"
    /\ SendsOf("DESTROYHWQUEUE") # {}
    /\ Cardinality(Events("kfree")) = 1

(***************************************************************************)
(* C10: when create-hwqueue fails after the host returned the queue        *)
(* handle, on return neither the hwqueue entry nor the progress-fence      *)
(* placeholder entry is left in the handle table and the progress-fence    *)
(* window is not mapped.                                                   *)
(***************************************************************************)
HostReturnedQueue == Called("create_hwqueue") /\ Events("assign_handle") # {}

C10_HwqueueFailureUnwound ==
    (HostReturnedQueue /\ enc_ret < 0) =>
        /\ [type |-> "DXGHWQUEUE", h |-> HostHwqueue] \notin handle_table
        /\ [type |-> "MONITOREDFENCE", h |-> HostFence] \notin handle_table
        /\ HostFenceCpuVa \notin iospace

(***************************************************************************)
(* C11: an encoder that receives a typed response reads the response's     *)
(* status first: no response field is copied to the caller's structures,   *)
(* to user memory or to a guest object unless the transport call returned  *)
(* an answer and the answer's status is a success.                         *)
(***************************************************************************)
TypedResponseOps ==
    {"open_adapter", "query_clock_calibration", "reserve_gpu_va",
     "make_resident", "get_stdalloc_data"}

ResponseCopies == Events("store") \cup Events("copy_to_user")

C11_StatusCheckedBeforeUse ==
    (enc_call # None /\ enc_call.op \in TypedResponseOps) =>
        \A k \in ResponseCopies :
            \E r \in Events("response") :
                r < k /\ NT_SUCCESS(enc_log[r].status)

(***************************************************************************)
(* C12: when the transport call of an encoder's request fails, the encoder *)
(* returns the transport's error unchanged (a zero handle where it returns *)
(* a handle) and neither decodes nor copies anything from the response     *)
(* buffer.                                                                 *)
(***************************************************************************)
CompensatingCommands ==
    {"DESTROYALLOCATION", "DESTROYCONTEXT", "DESTROYHWQUEUE"}

\* The requests of the call proper whose transport call failed.
FailedRequests ==
    { k \in Events("send") :
        enc_log[k].failed /\ enc_log[k].cmd \notin CompensatingCommands }

C12_TransportErrorPropagated ==
    enc_call # None =>
        \A k \in FailedRequests :
            /\ enc_ret = (IF Called("create_context") THEN 0 ELSE TransportError)
            /\ \A j \in ResponseCopies \cup Events("response") : j < k

(***************************************************************************)
(* C13: when the host's answer disagrees with the request (a zero process  *)
(* handle, a zero shared handle, an allocation count other than the one    *)
(* asked for, a private-data or resource-data size other than the caller's, *)
(* or a standard allocation type the encoder does not serve), the encoder  *)
(* returns -EINVAL or -ENOTRECOVERABLE and records none of the returned    *)
(* values.                                                                 *)
(***************************************************************************)
StdallocSizeMismatch(args, host) ==
    \/ /\ args.alloc_priv_driver_size # 0
       /\ host.priv_driver_data_size # args.alloc_priv_driver_size
    \/ /\ args.res_priv_data_size # 0
       /\ host.priv_driver_resource_size # args.res_priv_data_size

\* The answer logged at k disagrees with the request.
AnswerDisagrees(k) ==
    \/ Called("create_process") /\ enc_log[k].hprocess = 0
    \/ Called("create_nt_shared_object") /\ enc_log[k].shared_handle = 0
    \/ /\ Called("create_allocation")
       /\ "alloc_count" \in DOMAIN enc_log[k]
       /\ enc_log[k].alloc_count # enc_call.args.alloc_count
    \/ /\ Called("get_stdalloc_data")
       /\ NT_SUCCESS(enc_log[k].status)
       /\ StdallocSizeMismatch(enc_call.args, enc_call.host)

UnsupportedTypeAsked ==
    /\ Called("get_stdalloc_data")
    /\ enc_call.args.alloctype # "GDISURFACE"
    /\ \E k \in InitOf("msg") : enc_log[k].msg.hdr # "NULL"

NothingRecorded ==
    /\ Events("store") = {}
    /\ Called("create_process") => enc_objs = NewProcess
    /\ Called("create_nt_shared_object") => enc_objs = NewSharedObject
    /\ Called("get_stdalloc_data") => enc_objs = NewStdallocBuffers(enc_call.args)

C13_DisagreeingAnswerRejected ==
    (UnsupportedTypeAsked \/ \E k \in Events("response") : AnswerDisagrees(k)) =>
        /\ enc_ret \in {0 - EINVAL, 0 - ENOTRECOVERABLE}
        /\ NothingRecorded

(***************************************************************************)
(* C14: every request of every encoder goes out on the channel that one    *)
(* rule gives for (adapter context present, asynchronous messages          *)
(* enabled): the global channel when the encoder has no adapter context or *)
(* the flag is set, otherwise the adapter's channel.  The rule is the same *)
(* for messages built by init_message and by init_message_res.             *)
(***************************************************************************)
GlobalOps ==
    {"create_process", "create_nt_shared_object", "open_sync_object_nt",
     "set_iospace_region", "destroy_process", "destroy_nt_shared_object",
     "destroy_sync_object", "share_object_with_host", "present_virtual"}

ChannelRule(has_adapter, async_enabled) ==
    IF has_adapter /\ ~async_enabled THEN "adapter" ELSE "global"

C14_ChannelByRule ==
    enc_call # None =>
        \A k \in Events("send") :
            enc_log[k].msg.channel =
                ChannelRule(enc_call.op \notin GlobalOps,
                            dxgglobal.async_msg_enabled)
(***************************************************************************)
(* C16: the asynchronous primitive is used by the four submission encoders *)
(* only, and by them exactly when asynchronous messages are enabled, with  *)
(* the header's async mark set in the message sent; with the switch off    *)
(* they send synchronously and return the translated status of the answer; *)
(* every other encoder sends synchronously.                                *)
(***************************************************************************)
SubmissionOps ==
    {"submit_command", "signal_sync_object", "wait_sync_object_gpu",
     "submit_command_hwqueue"}

C16_AsyncOnlyForSubmissions ==
    enc_call # None =>
        \A k \in Events("send") :
            /\ enc_log[k].primitive = "async" <=>
                  (enc_call.op \in SubmissionOps /\ dxgglobal.async_msg_enabled)
            /\ enc_call.op \in SubmissionOps =>
                  /\ enc_log[k].payload.async_msg =
                        (IF enc_log[k].primitive = "async" THEN 1 ELSE 0)
                  /\ (enc_log[k].primitive = "sync" /\ ~enc_log[k].failed) =>
                        \E r \in Events("response") :
                           /\ k < r
                           /\ enc_ret = ntstatus2int(enc_log[r].status)

\* A signal that went out synchronously and came back with the host's
\* failure status, the switch being off.
C16_Witness ==
    /\ Called("signal_sync_object")
    /\ ~dxgglobal.async_msg_enabled
    /\ \E k \in Events("send") : enc_log[k].primitive = "sync"
    /\ enc_ret = 0 - ENOMEM
    /\ \E r \in Events("response") : enc_log[r].status = STATUS_NO_MEMORY

(***************************************************************************)
(* C17: in allocation creation every handle the host returned (the         *)
(* resource handle, each allocation handle) is registered in the process   *)
(* handle table, inside the table's critical section, before its value is  *)
(* copied out to the caller.                                               *)
(***************************************************************************)
HandleCopies ==
    { k \in Events("copy_to_user") :
        enc_log[k].ok /\ enc_log[k].what \in {"resource", "allocation"} }

CopiedHandle(k) ==
    IF enc_log[k].what = "resource" THEN HostResource
    ELSE HostAllocation(enc_log[k].i)

\* Event a lies inside a critical section of the handle table.
UnderTableLock(a) ==
    \E l \in Events("hmgrtable_lock") :
        l < a /\ \A u \in Events("hmgrtable_unlock") : ~(l < u /\ u < a)

C17_RegisteredBeforeCopyOut ==
    Called("create_allocation") =>
        \A k \in HandleCopies :
            \E a \in Events("assign_handle") :
                /\ a < k
                /\ enc_log[a].ok
                /\ enc_log[a].h = CopiedHandle(k)
                /\ UnderTableLock(a)

(***************************************************************************)
(* C18: the lock of the process handle table is never held while a request *)
(* is handed to the transport: it is taken only after the host has         *)
(* answered the encoder's request, and it is released before any further   *)
(* request, a compensating one included, is sent.                          *)
(***************************************************************************)
C18_NoSendUnderTableLock ==
    enc_call # None =>
        \A l \in Events("hmgrtable_lock") :
            /\ \E k \in Events("send") : k < l /\ ~enc_log[k].failed
            /\ \A k \in Events("send") :
                  l < k => \E u \in Events("hmgrtable_unlock") : l < u /\ u < k

\* A batch whose registration failed: the table was locked and unlocked,
\* and the compensating DESTROYALLOCATION went out after that.
C18_Witness ==
    /\ Called("create_allocation")
    /\ \E l \in Events("hmgrtable_lock"), k \in SendsOf("DESTROYALLOCATION") :
          l < k /\ ~enc_log[k].failed

(***************************************************************************)
(* SpecMap: dxgvmb_send_lock2 is called again and again for one            *)
(* allocation; the allocation, the handle table, the mapped windows and    *)
(* the log carry over from call to call.  enc_call counts the calls and    *)
(* keeps the allocation as the last call found it.                         *)
(***************************************************************************)
MaxLockCalls == 3

MapInit ==
    /\ StatusIdle
    /\ RleIdle
    /\ LockIdle
    /\ dxgglobal \in DxgGlobals
    /\ enc_ret = 0
    /\ \E alloc \in {WindowAllocation, SysmemAllocation}, registered \in BOOLEAN :
         LET s == Lock2Start(alloc, registered)
         IN /\ enc_call = [op |-> "lock2", calls |-> 0, before |-> alloc]
            /\ enc_log = s.log
            /\ handle_table = s.table
            /\ enc_objs = s.objs
            /\ iospace = s.maps

Lock2Call ==
    /\ enc_call.calls < MaxLockCalls
    /\ \E D \in DeviationSets(Lock2Points, MaxFaults) :
         EncReturn([op |-> "lock2", calls |-> enc_call.calls + 1,
                    before |-> enc_objs.alloc],
                   dxgvmb_send_lock2(
                       dxgglobal, D,
                       [ret |-> 0, log |-> enc_log, table |-> handle_table,
                        objs |-> enc_objs, maps |-> iospace]))

MapNext == Lock2Call

SpecMap == MapInit /\ [][MapNext]_vars

(***************************************************************************)
(* C19: for one allocation, lock2 calls keep at most one window mapped;    *)
(* a successful call on an allocation without a stored address maps the    *)
(* window, stores the address and sets the count to 1; a successful call   *)
(* on a mapped allocation returns the stored address and adds one to the   *)
(* count; after every call the allocation is marked mapped exactly when    *)
(* the count is at least 1 and an address is stored, and a window is       *)
(* unmapped only by the call that brings the count back to 0.              *)
(***************************************************************************)
LockedOnce == enc_call # None /\ enc_call.op = "lock2" /\ enc_call.calls > 0

C19_OneMappingPerAllocation ==
    LockedOnce =>
        LET b == enc_call.before
            a == enc_objs.alloc
        IN /\ Cardinality(iospace) <= 1
           /\ a.cpu_address_mapped <=>
                 (a.cpu_address_refcount >= 1 /\ a.cpu_address # 0)
           /\ a.cpu_address_mapped => iospace = {a.cpu_address}
           /\ ~a.cpu_address_mapped => iospace = {}
           /\ (enc_ret = 0 /\ b.cpu_address = 0) =>
                 /\ a.cpu_address_refcount = 1
                 /\ a.cpu_address # 0
                 /\ enc_objs.data = a.cpu_address
           /\ (enc_ret = 0 /\ b.cpu_address_mapped) =>
                 /\ a.cpu_address_refcount = b.cpu_address_refcount + 1
                 /\ a.cpu_address = b.cpu_address
                 /\ enc_objs.data = b.cpu_address
           /\ Cardinality(Events("unmap_iospace"))
                 <= Cardinality(Events("map_iospace"))

(***************************************************************************)
(* SpecIo: dxg_map_iospace in full, called once with an address and a size *)
(* from the host; dxgglobal holds the IO-space window that was negotiated. *)
(***************************************************************************)
MaxIoAddress == 7       \* host-supplied addresses are 0 .. MaxIoAddress
MaxIoSize == 5          \* host-supplied sizes are 0 .. MaxIoSize
VmMmapVa == 28672       \* the address vm_mmap hands out

IoGlobals ==
    [vmbus_ver : {DXGK_VMBUS_INTERFACE_VERSION}, async_msg_enabled : {FALSE},
     mmiospace_base : {0, PAGE_SIZE}, mmiospace_size : {0, PAGE_SIZE, 2 * PAGE_SIZE}]

check_iospace_address(g, address, size) ==
    IF \/ address < g.mmiospace_base
       \/ size > g.mmiospace_size
       \/ address >= g.mmiospace_base + g.mmiospace_size - size
    THEN 0 - EINVAL
    ELSE 0

IoPoints == { Point(at) : at \in {"vm_mmap", "find_vma", "io_remap_pfn_range"} }

\* dxg_map_iospace; s.ret is the pointer returned, 0 for NULL.
dxg_map_iospace_window(g, iospace_address, size, D, s0) ==
    LET checked == check_iospace_address(g, iospace_address, size)
        s1 == Ev(s0, [ev |-> "check_iospace_address", ret |-> checked])
        s2 == [Ev(s1, [ev |-> "vm_mmap", va |-> VmMmapVa])
                 EXCEPT !.maps = @ \cup {VmMmapVa}]
    IN IF checked < 0 THEN [s1 EXCEPT !.ret = 0]
       ELSE IF Deviates(D, "vm_mmap", 0) THEN [s1 EXCEPT !.ret = 0]
       ELSE IF Deviates(D, "find_vma", 0) \/ Deviates(D, "io_remap_pfn_range", 0)
       THEN [dxg_unmap_iospace(s2, VmMmapVa) EXCEPT !.ret = 0]
       ELSE [s2 EXCEPT !.ret = VmMmapVa + (iospace_address % PAGE_SIZE)]

\* An unmap that hands the caller whatever vm_munmap returned.
dxg_unmap_iospace_mm_raw_error(s0, va, size, has_mm, munmap_fails) ==
    LET page_addr == va - (va % PAGE_SIZE)
    IN IF ~has_mm THEN [s0 EXCEPT !.ret = 0]
       ELSE IF munmap_fails
       THEN [Ev(s0, [ev |-> "vm_munmap", addr |-> page_addr, size |-> size,
                     ok |-> FALSE])
               EXCEPT !.ret = 0 - EINVAL]
       ELSE [Ev(s0, [ev |-> "vm_munmap", addr |-> page_addr, size |-> size,
                     ok |-> TRUE])
               EXCEPT !.ret = 0, !.maps = @ \ {page_addr}]

\* dxg_unmap_iospace in full: has_mm is current->mm != NULL, page_addr is
\* va & PAGE_MASK.
dxg_unmap_iospace_mm(s0, va, size, has_mm, munmap_fails) ==
    LET page_addr == va - (va % PAGE_SIZE)
    IN IF ~has_mm THEN [s0 EXCEPT !.ret = 0]
       ELSE IF munmap_fails
       THEN [Ev(s0, [ev |-> "vm_munmap", addr |-> page_addr, size |-> size,
                     ok |-> FALSE])
               EXCEPT !.ret = 0 - ENOTRECOVERABLE]
       ELSE [Ev(s0, [ev |-> "vm_munmap", addr |-> page_addr, size |-> size,
                     ok |-> TRUE])
               EXCEPT !.ret = 0, !.maps = @ \ {page_addr}]

IoInit ==
    /\ StatusIdle
    /\ RleIdle
    /\ LockIdle
    /\ dxgglobal \in IoGlobals
    /\ enc_call = None
    /\ enc_ret = 0
    /\ enc_log = <<>>
    /\ handle_table = {}
    /\ enc_objs = None
    /\ iospace = {}

MapIospace ==
    /\ enc_call = None
    /\ \E address \in 0 .. MaxIoAddress, size \in 0 .. MaxIoSize :
         \E D \in DeviationSets(IoPoints, MaxFaults) :
            EncReturn([op |-> "map_iospace",
                       args |-> [iospace_address |-> address, size |-> size]],
                      dxg_map_iospace_window(dxgglobal, address, size, D, EncStart))

\* The window at VmMmapVa is mapped; va points into its first pages.
UnmapIospace ==
    /\ enc_call = None
    /\ \E off \in 0 .. MaxIoAddress, size \in 0 .. MaxIoSize, has_mm \in BOOLEAN :
         \E D \in DeviationSets({Point("vm_munmap")}, MaxFaults) :
            EncReturn([op |-> "unmap_iospace",
                       args |-> [va |-> VmMmapVa + off, size |-> size,
                                 has_mm |-> has_mm]],
                      dxg_unmap_iospace_mm(
                          [EncStart EXCEPT
                              !.maps = {VmMmapVa + k * PAGE_SIZE :
                                          k \in 0 .. MaxIoAddress \div PAGE_SIZE}],
                          VmMmapVa + off, size, has_mm,
                          Deviates(D, "vm_munmap", 0)))

IoNext ==
    \/ MapIospace
    \/ UnmapIospace

SpecIo == IoInit /\ [][IoNext]_vars

(***************************************************************************)
(* C20: the IO-space check accepts an (address, size) from the host        *)
(* exactly when base <= address and address + size <= base + window size;  *)
(* every other pair is rejected, the map operation returning NULL with no  *)
(* guest mapping made.                                                     *)
(***************************************************************************)
InsideWindow(g, address, size) ==
    /\ g.mmiospace_base <= address
    /\ address + size <= g.mmiospace_base + g.mmiospace_size

C20_WindowCheckExact ==
    Called("map_iospace") =>
        \A k \in Events("check_iospace_address") :
            /\ enc_log[k].ret = 0 <=>
                  InsideWindow(dxgglobal, enc_call.args.iospace_address,
                               enc_call.args.size)
            /\ enc_log[k].ret # 0 =>
                  /\ enc_ret = 0
                  /\ iospace = {}
                  /\ Events("vm_mmap") = {}

(***************************************************************************)
(* C21: dxg_unmap_iospace returns success without calling vm_munmap when   *)
(* the caller has no memory-management context; otherwise it unmaps the    *)
(* page-aligned range that holds the address once, and returns success     *)
(* when that worked and -ENOTRECOVERABLE, nothing else, when it failed.    *)
(***************************************************************************)
PagesMappedAtStart ==
    { VmMmapVa + k * PAGE_SIZE : k \in 0 .. MaxIoAddress \div PAGE_SIZE }

C21_UnmapOutcome ==
    Called("unmap_iospace") =>
        LET a == enc_call.args
            page_addr == a.va - (a.va % PAGE_SIZE)
        IN IF ~a.has_mm
           THEN /\ enc_ret = 0
                /\ Events("vm_munmap") = {}
                /\ iospace = PagesMappedAtStart
           ELSE /\ Cardinality(Events("vm_munmap")) = 1
                /\ \A k \in Events("vm_munmap") :
                      /\ enc_log[k].addr = page_addr
                      /\ enc_log[k].size = a.size
                      /\ page_addr % PAGE_SIZE = 0
                      /\ page_addr <= a.va /\ a.va < page_addr + PAGE_SIZE
                      /\ enc_log[k].ok =>
                            enc_ret = 0 /\ iospace = PagesMappedAtStart \ {page_addr}
                      /\ ~enc_log[k].ok =>
                            enc_ret = 0 - ENOTRECOVERABLE
                            /\ iospace = PagesMappedAtStart

\* An unmap of an address inside a page that failed.
C21_Witness ==
    /\ Called("unmap_iospace")
    /\ enc_call.args.has_mm
    /\ enc_call.args.va % PAGE_SIZE # 0
    /\ \E k \in Events("vm_munmap") : ~enc_log[k].ok
    /\ enc_ret = 0 - ENOTRECOVERABLE
(***************************************************************************)
(* C22: the payload of a signal-sync-object message, after the fixed       *)
(* header, is object_count handles, then the explicit context handle if    *)
(* there is one, then context_count caller contexts, then fence_count      *)
(* 8-byte fence values if a fence array was given, one right after the     *)
(* other; the message size is the size of what was written, and the        *)
(* context count told to the host is context_count plus one for an         *)
(* explicit context.                                                       *)
(***************************************************************************)
SectionsOf(secs, what) == { i \in 1..Len(secs) : secs[i].what = what }

RECURSIVE SectionBytes(_, _)
SectionBytes(secs, n) ==
    IF n = 0 THEN 0 ELSE SectionBytes(secs, n - 1) + secs[n].len

\* Section what is there exactly when wanted, holding count items of unit
\* bytes.
SectionHolds(secs, what, wanted, count, unit) ==
    IF wanted
    THEN \E i \in SectionsOf(secs, what) :
            /\ SectionsOf(secs, what) = {i}
            /\ secs[i].len % unit = 0
            /\ secs[i].len \div unit = count
    ELSE SectionsOf(secs, what) = {}

SectionOrder(what) ==
    CASE what = "objects" -> 1
      [] what = "context" -> 2
      [] what = "contexts" -> 3
      [] what = "fences" -> 4

C22_SignalPayloadLayout ==
    Called("signal_sync_object") =>
        \A k \in Events("send") :
            LET a == enc_call.args
                p == enc_log[k].payload
                secs == p.sections
            IN /\ SectionHolds(secs, "objects", TRUE, a.object_count,
                               sizeof_d3dkmthandle)
               /\ SectionHolds(secs, "context", a.context # 0, 1,
                               sizeof_d3dkmthandle)
               /\ SectionHolds(secs, "contexts", a.context_count # 0,
                               a.context_count, sizeof_d3dkmthandle)
               /\ SectionHolds(secs, "fences", a.fences /\ a.fence_count # 0,
                               a.fence_count, SIZEOF_U64)
               /\ \A i \in 1..Len(secs) :
                     /\ secs[i].at = SectionBytes(secs, i - 1)
                     /\ \A j \in 1..Len(secs) :
                           i < j => SectionOrder(secs[i].what)
                                      < SectionOrder(secs[j].what)
               /\ enc_log[k].msg.size =
                     (IF use_ext_header(dxgglobal) THEN sizeof_dxgvmb_ext_header
                      ELSE 0)
                     + sizeof_signalsyncobject + SectionBytes(secs, Len(secs))
               /\ p.context_count =
                     a.context_count + (IF a.context # 0 THEN 1 ELSE 0)
(***************************************************************************)
(* C23: with guest-page mapping negotiated, the set-existing-pages         *)
(* messages of create_existing_sysmem cut the page list into consecutive   *)
(* chunks: each carries between 1 and max_pfns_in_message pages, starts    *)
(* at the page after the last one of the message before and names that     *)
(* offset; when every send succeeds the chunks cover all n pages; after    *)
(* the first send that fails nothing more is sent and its error is         *)
(* returned.                                                               *)
(***************************************************************************)
PageSends == SendsOf("SETEXISTINGSYSMEMPAGES")

PagesBefore(k) ==
    LET earlier == { j \in PageSends : j < k }
        Sum[S \in SUBSET earlier] ==
            IF S = {} THEN 0
            ELSE LET j == CHOOSE x \in S : TRUE
                 IN enc_log[j].payload.num_pages + Sum[S \ {j}]
    IN Sum[earlier]

\* The send at k failed: in the transport, or by the host's status.
PageSendFailed(k) ==
    \/ enc_log[k].failed
    \/ k < Len(enc_log) /\ enc_log[k + 1].ev = "response"
                         /\ ~NT_SUCCESS(enc_log[k + 1].status)

C23_PagesPartitioned ==
    (Called("create_existing_sysmem") /\ enc_call.args.map_guest_pages_enabled) =>
        /\ \A k \in PageSends :
              /\ enc_log[k].payload.num_pages \in 1 .. max_pfns_in_message
              /\ enc_log[k].payload.alloc_offset_in_pages = PagesBefore(k)
              /\ enc_log[k].payload.pfn_from = PagesBefore(k)
              /\ PagesBefore(k) + enc_log[k].payload.num_pages
                    <= enc_call.args.npages
              /\ PageSendFailed(k) =>
                    /\ \A j \in PageSends : j <= k
                    /\ enc_ret < 0
                    /\ enc_log[k].failed => enc_ret = TransportError
                    /\ ~enc_log[k].failed =>
                          enc_ret = ntstatus2int(enc_log[k + 1].status)
        /\ (PageSends # {} /\ \A k \in PageSends : ~PageSendFailed(k)) =>
              /\ enc_ret >= 0
              /\ \E k \in PageSends :
                    PagesBefore(k) + enc_log[k].payload.num_pages
                       = enc_call.args.npages

\* Two full messages and a third with the one page left, all accepted.
C23_Witness ==
    /\ Called("create_existing_sysmem")
    /\ enc_call.args.map_guest_pages_enabled
    /\ enc_call.args.npages = 2 * max_pfns_in_message + 1
    /\ Cardinality(PageSends) = 3
    /\ \A k \in PageSends : ~PageSendFailed(k)
    /\ enc_ret >= 0
(***************************************************************************)
(* SpecMsg: the message builders on their own.  init_message or            *)
(* init_message_res is called once, with a size from around the inline     *)
(* threshold or from the top of the 32-bit range, and the message is       *)
(* released again.  enc_objs keeps the message as the builder left it.     *)
(***************************************************************************)
MsgSizes ==
    {0, 1, VMBUSMESSAGEONSTACK - sizeof_dxgvmb_ext_header - 1,
     VMBUSMESSAGEONSTACK - sizeof_dxgvmb_ext_header,
     VMBUSMESSAGEONSTACK - sizeof_dxgvmb_ext_header + 1,
     VMBUSMESSAGEONSTACK - 1, VMBUSMESSAGEONSTACK, VMBUSMESSAGEONSTACK + 1,
     DXG_MAX_VM_BUS_PACKET_SIZE,
     U32FromTop(sizeof_dxgvmb_ext_header + 1),
     U32FromTop(sizeof_dxgvmb_ext_header), U32FromTop(1)}

ResultSizes == {0, 1, 7, 8, 9, 12, U32FromTop(8), U32FromTop(7), U32FromTop(1)}

\* No allocation of 2^31 bytes or more succeeds.
KzallocOutcomes(size) == IF size >= 0 THEN BOOLEAN ELSE {FALSE}

BuiltMessage(msg) ==
    free_message(InitMessage([EncStart EXCEPT !.ret = msg.ret,
                                              !.objs = [msg |-> msg]], msg),
                 msg)

InitMessageCall ==
    /\ enc_call = None
    /\ \E adapter \in BOOLEAN, size \in MsgSizes :
         \E kzalloc_ok \in KzallocOutcomes(
                               init_message(dxgglobal, "msg", adapter, size,
                                            FALSE).size) :
            EncReturn([op |-> "init_message",
                       args |-> [adapter |-> adapter, size |-> size]],
                      BuiltMessage(init_message(dxgglobal, "msg", adapter, size,
                                                kzalloc_ok)))

InitMessageResCall ==
    /\ enc_call = None
    /\ \E size \in {sizeof_createntsharedobject, VMBUSMESSAGEONSTACK,
                     sizeof_getstandardallocprivdata},
          result_size \in ResultSizes :
         \E kzalloc_ok \in KzallocOutcomes(
                               init_message_res(dxgglobal, "msg", TRUE, size,
                                                result_size, FALSE).alloc) :
            EncReturn([op |-> "init_message_res",
                       args |-> [size |-> size, result_size |-> result_size]],
                      BuiltMessage(init_message_res(dxgglobal, "msg", TRUE, size,
                                                    result_size, kzalloc_ok)))

MsgNext ==
    \/ InitMessageCall
    \/ InitMessageResCall

SpecMsg == EncInit /\ [][MsgNext]_vars

(***************************************************************************)
(* C24: init_message records the base size plus the size of the extended   *)
(* header exactly when the protocol version is at or above the threshold;  *)
(* the buffer is the inline one when that total is at most the inline      *)
(* threshold and a heap buffer otherwise; the payload starts right after   *)
(* the extended header when there is one (its command offset is the        *)
(* header's size, its partition id is set when an adapter is given) and at *)
(* the start of the buffer otherwise; a failed heap allocation returns     *)
(* -ENOMEM and leaves no buffer, so that the release frees nothing.        *)
(***************************************************************************)
\* The extended header's size, if the version has one.
ExtSize == IF use_ext_header(dxgglobal) THEN sizeof_dxgvmb_ext_header ELSE 0

\* The u32 sum a + b came out without a carry out of 32 bits.
NoCarry(a, b) == ~(a < 0 /\ a + b >= 0)

C24_InitMessageContract ==
    Called("init_message") =>
        LET a == enc_call.args
            msg == enc_objs.msg
            inline == NoCarry(a.size, ExtSize)
                      /\ U32Le(a.size + ExtSize, VMBUSMESSAGEONSTACK)
        IN /\ msg.size = a.size + ExtSize
           /\ NoCarry(a.size, ExtSize)
           /\ inline => (enc_ret = 0 /\ msg.hdr = "msg_on_stack")
           /\ (~inline /\ enc_ret = 0) => msg.hdr = "heap"
           /\ enc_ret \in {0, 0 - ENOMEM}
           /\ enc_ret = 0 =>
                 /\ msg.msg_at = ExtSize
                 /\ use_ext_header(dxgglobal) =>
                       /\ msg.command_offset = sizeof_dxgvmb_ext_header
                       /\ msg.vgpu_luid = a.adapter
                 /\ Events("kfree") # {} <=> msg.hdr = "heap"
           /\ enc_ret # 0 =>
                 /\ ~inline
                 /\ msg.hdr = "NULL"
                 /\ Events("kfree") = {}

(***************************************************************************)
(* C25: init_message_res reserves, behind the request, a result region     *)
(* whose size is the smallest multiple of 8 that is not below the result   *)
(* size; the region starts at an offset that is a multiple of 8, right     *)
(* after the request bytes, inside one allocation of request size plus     *)
(* region size.                                                            *)
(***************************************************************************)
C25_ResultRegionAligned ==
    Called("init_message_res") =>
        LET a == enc_call.args
            msg == enc_objs.msg
        IN /\ msg.res_size % 8 = 0
           /\ U32Le(a.result_size, msg.res_size)
           /\ msg.res_size # 0 => ~U32Le(a.result_size, msg.res_size - 8)
           /\ msg.alloc = msg.size + msg.res_size
           /\ enc_ret = 0 =>
                 /\ msg.res_at = a.size + ExtSize
                 /\ msg.res_at % 8 = 0

(***************************************************************************)
(* C26: in every encoder that takes the global channel lock, acquisitions  *)
(* and releases are balanced on every exit path: a successful acquisition  *)
(* is followed by exactly one release before the encoder returns and no    *)
(* release happens without the lock held; when the acquisition fails the   *)
(* encoder sends nothing, releases nothing, frees its message and returns  *)
(* the acquisition error.                                                  *)
(***************************************************************************)
Acquired == { k \in Events("acquire_channel_lock") : enc_log[k].ok }
Refused == { k \in Events("acquire_channel_lock") : ~enc_log[k].ok }

\* The number of channel locks held after the first n events of the call.
HeldAfter(n) ==
    Cardinality({ k \in Acquired : k <= n })
    - Cardinality({ k \in Events("release_channel_lock") : k <= n })

C26_ChannelLockBalanced ==
    (enc_call # None /\ enc_call.op \in GlobalOps) =>
        /\ \A n \in 0..Len(enc_log) : HeldAfter(n) \in {0, 1}
        /\ HeldAfter(Len(enc_log)) = 0
        /\ \A k \in Acquired :
             Cardinality({ r \in Events("release_channel_lock") : r > k }) = 1
        /\ Refused # {} =>
             /\ Events("send") = {}
             /\ Events("release_channel_lock") = {}
             /\ \A i \in InitOf("msg") :
                  enc_log[i].msg.hdr = "heap" => FreesOf("msg") # {}
             /\ enc_ret = 0 - ENODEV

\* present_virtual fails at the transport with the lock held, and the lock
\* is released before the heap message is freed.
C26_Witness ==
    /\ Called("present_virtual")
    /\ enc_ret < 0
    /\ \E k \in Acquired : \E e \in Events("send") : \E r \in Events("release_channel_lock") :
          \E f \in FreesOf("msg") :
             k < e /\ e < r /\ r < f /\ enc_log[e].failed

(***************************************************************************)
(* C27: the sysmem rule of create-allocation constrains a batch only when  *)
(* its first allocation is system-memory-backed: a batch of any size with  *)
(* no system-memory-backed allocation is not turned away by the sysmem     *)
(* check (an invalid-argument error comes from a failed copy into the      *)
(* message built afterwards, never from the check), sends no               *)
(* get-allocation-size message, and when nothing else fails before the     *)
(* send the create-allocation message goes out.                            *)
(***************************************************************************)
NoSysmem(args) == \A i \in 1..args.alloc_count : ~args.alloc_info[i].sysmem

C27_NoSysmemBatchPasses ==
    (Called("create_allocation") /\ NoSysmem(enc_call.args)) =>
        /\ SendsOf("GETALLOCATIONSIZE") = {}
        /\ enc_ret = 0 - EINVAL => InitOf("msg") # {}
        /\ enc_ret = 0 => SendsOf("CREATEALLOCATION") # {}

(***************************************************************************)
(* C28: create_local_allocations returns success only if every handle of   *)
(* the operation was registered: when the assignment of the resource       *)
(* handle (a resource being created) or of any allocation handle is        *)
(* refused the operation fails and the rollback tells the host; after a    *)
(* successful return the resource created and every allocation have their  *)
(* handle-valid flag set and their handle in the handle table.             *)
(***************************************************************************)
AssignRefused == { a \in Events("assign_handle") : ~enc_log[a].ok }

C28_SuccessMeansRegistered ==
    Called("create_allocation") =>
        /\ AssignRefused # {} =>
              /\ enc_ret < 0
              /\ SendsOf("DESTROYALLOCATION") # {}
        /\ enc_ret = 0 =>
              /\ enc_call.args.create_resource =>
                    /\ enc_objs.resource.handle_valid
                    /\ [type |-> "DXGRESOURCE", h |-> HostResource]
                          \in handle_table
              /\ \A i \in 1..enc_call.args.alloc_count :
                    /\ enc_objs.dxgalloc[i].handle_valid
                    /\ [type |-> "DXGALLOCATION", h |-> HostAllocation(i)]
                          \in handle_table

(***************************************************************************)
(* C29: every buffer handed to a transport send was built by a message     *)
(* builder that succeeded: the buffer is not null, a channel was selected  *)
(* and the command header was filled in.  In particular, when the          *)
(* compensating destroy-allocation message of create_local_allocations     *)
(* fails to build, no send is attempted with it.                           *)
(***************************************************************************)
BuiltBuffer(msg) ==
    /\ msg.ret = 0
    /\ msg.hdr \in {"msg_on_stack", "heap"}
    /\ msg.channel \in {"adapter", "global"}

DestroyBuildFailed == \E k \in InitOf("destroy") : enc_log[k].msg.ret # 0

C29_SendsOnlyBuiltMessages ==
    enc_call # None =>
        /\ \A k \in Events("send") :
              /\ BuiltBuffer(enc_log[k].msg)
              /\ \E i \in InitOf(enc_log[k].msg.name) :
                    i < k /\ enc_log[i].msg = enc_log[k].msg
              /\ enc_log[k].cmd = "DESTROYALLOCATION" => enc_log[k].payload.built
        /\ (Called("create_allocation") /\ DestroyBuildFailed) =>
              SendsOf("DESTROYALLOCATION") = {}

(***************************************************************************)
(* C30: when lock2 fails after the host round trip (the allocation is not  *)
(* in the table, the window cannot be mapped, or the copy-out of the       *)
(* address fails) the allocation is as it was before the call: count,      *)
(* mapped flag and stored address are unchanged, also for an allocation    *)
(* whose address is the caller's own memory and whose count is 0.          *)
(***************************************************************************)
\* The last event of the log that is not the release of the message.
LastStep ==
    LET n == Len(enc_log)
    IN IF n = 0 THEN None
       ELSE IF enc_log[n].ev = "kfree" /\ n > 1 THEN enc_log[n - 1]
       ELSE enc_log[n]

FailedAfterRoundTrip ==
    /\ LockedOnce
    /\ enc_ret < 0
    /\ LastStep # None
    /\ LastStep.ev = "hmgrtable_unlock"

C30_FailedLockLeavesMapping ==
    FailedAfterRoundTrip => enc_objs.alloc = enc_call.before

(***************************************************************************)
(* SpecLock: caller threads run dxgvmb_send_create_process (a global       *)
(* encoder) and dxgvmb_send_create_device (an adapter-scoped encoder)      *)
(* concurrently.  A request is in flight on its channel from the moment    *)
(* dxgvmb_send_sync_msg hands it to the transport until the host's answer  *)
(* wakes the caller.  dxgvmb_send_submit_command and                       *)
(* dxgvmb_send_get_internal_adapter_info run beside them: the first reads  *)
(* dxgglobal->async_msg_enabled twice, the second writes it, and no lock   *)
(* orders the three accesses.                                              *)
(***************************************************************************)
MaxThreads == 2
MaxAdapters == 2

Threads == 1 .. MaxThreads
Adapters == 1 .. MaxAdapters

IdleThread ==
    [op |-> "none", adapter |-> 0, pc |-> "idle", msg |-> NullMessage("msg"),
     channel |-> <<"unset", 0>>, primitive |-> "none", ret |-> 0]

\* The channel a message of adapter a goes out on.
ChannelOf(msg, a) ==
    IF msg.channel = "adapter" THEN <<"adapter", a>> ELSE <<"global", 0>>

\* The global channel lock, an exclusive lock: acquire blocks while another
\* thread holds it.
dxgglobal_acquire_channel_lock(t) ==
    /\ channel_lock = 0
    /\ channel_lock' = t

dxgglobal_release_channel_lock(t) == channel_lock' = 0

LockInit ==
    /\ StatusIdle
    /\ RleIdle
    /\ dxgglobal \in DxgGlobals
    /\ enc_call = None
    /\ enc_ret = 0
    /\ enc_log = <<>>
    /\ handle_table = {}
    /\ enc_objs = None
    /\ iospace = {}
    /\ thread = [t \in Threads |-> IdleThread]
    /\ channel_lock = 0
    /\ in_flight = {}

\* dxgvmb_send_create_process up to the lock: init_message with no adapter;
\* a failed init_message returns at once.
CreateProcessEnter(t) ==
    /\ thread[t].pc = "idle"
    /\ \E kzalloc_ok \in BOOLEAN :
         LET msg == init_message(dxgglobal, "msg", FALSE, sizeof_createprocess,
                                 kzalloc_ok)
         IN thread' = [thread EXCEPT ![t] =
                [op |-> "create_process", adapter |-> 0,
                 pc |-> IF msg.ret # 0 THEN "done" ELSE "acquire",
                 msg |-> msg, channel |-> <<"global", 0>>,
                 primitive |-> "sync", ret |-> msg.ret]]
    /\ UNCHANGED <<channel_lock, in_flight, statusVars, rleVars, encVars>>

\* ret = dxgglobal_acquire_channel_lock(): the lock is taken.
CreateProcessAcquire(t) ==
    /\ thread[t].pc = "acquire"
    /\ dxgglobal_acquire_channel_lock(t)
    /\ thread' = [thread EXCEPT ![t].pc = "send"]
    /\ UNCHANGED <<in_flight, statusVars, rleVars, encVars>>

\* ret = dxgglobal_acquire_channel_lock(): ret < 0, goto cleanup.
CreateProcessAcquireFails(t) ==
    /\ thread[t].pc = "acquire"
    /\ thread' = [thread EXCEPT ![t].pc = "free", ![t].ret = 0 - ENODEV]
    /\ UNCHANGED <<channel_lock, in_flight, statusVars, rleVars, encVars>>

\* dxgvmb_send_create_device up to the send: init_message with the adapter;
\* no lock is taken.
CreateDeviceEnter(t) ==
    /\ thread[t].pc = "idle"
    /\ \E a \in Adapters, kzalloc_ok \in BOOLEAN :
         LET msg == init_message(dxgglobal, "msg", TRUE, sizeof_createdevice,
                                 kzalloc_ok)
         IN thread' = [thread EXCEPT ![t] =
                [op |-> "create_device", adapter |-> a,
                 pc |-> IF msg.ret # 0 THEN "done" ELSE "send",
                 msg |-> msg, channel |-> ChannelOf(msg, a),
                 primitive |-> "sync", ret |-> msg.ret]]
    /\ UNCHANGED <<channel_lock, in_flight, statusVars, rleVars, encVars>>

\* dxgvmb_send_submit_command up to the choice of the primitive:
\* init_message reads the switch and fixes the channel.
SubmitCommandEnter(t) ==
    /\ thread[t].pc = "idle"
    /\ \E a \in Adapters, kzalloc_ok \in BOOLEAN :
         LET msg == init_message(dxgglobal, "msg", TRUE, sizeof_submitcommand,
                                 kzalloc_ok)
         IN thread' = [thread EXCEPT ![t] =
                [op |-> "submit_command", adapter |-> a,
                 pc |-> IF msg.ret # 0 THEN "done" ELSE "choose",
                 msg |-> msg, channel |-> ChannelOf(msg, a),
                 primitive |-> "none", ret |-> msg.ret]]
    /\ UNCHANGED <<channel_lock, in_flight, statusVars, rleVars, encVars>>

\* if (dxgglobal->async_msg_enabled): the switch is read again and decides
\* the primitive.
SubmitCommandChoose(t) ==
    /\ thread[t].pc = "choose"
    /\ thread' = [thread EXCEPT
           ![t].primitive = IF dxgglobal.async_msg_enabled THEN "async"
                            ELSE "sync",
           ![t].pc = "send"]
    /\ UNCHANGED <<channel_lock, in_flight, statusVars, rleVars, encVars>>

\* dxgvmb_send_get_internal_adapter_info up to the send.
GetInternalAdapterInfoEnter(t) ==
    /\ thread[t].pc = "idle"
    /\ \E a \in Adapters, kzalloc_ok \in BOOLEAN :
         LET msg == init_message(dxgglobal, "msg", TRUE,
                                 sizeof_getinternaladapterinfo, kzalloc_ok)
         IN thread' = [thread EXCEPT ![t] =
                [op |-> "get_internal_adapter_info", adapter |-> a,
                 pc |-> IF msg.ret # 0 THEN "done" ELSE "send",
                 msg |-> msg, channel |-> ChannelOf(msg, a),
                 primitive |-> "sync", ret |-> msg.ret]]
    /\ UNCHANGED <<channel_lock, in_flight, statusVars, rleVars, encVars>>

\* dxgvmb_send_sync_msg returns in dxgvmb_send_get_internal_adapter_info:
\* on success the host's async_msg_enabled is stored in the globals.
GetInternalAdapterInfoResult(t) ==
    /\ thread[t].pc = "wait"
    /\ thread[t].op = "get_internal_adapter_info"
    /\ in_flight' = in_flight \ {[thread |-> t, channel |-> thread[t].channel]}
    /\ \E fails \in BOOLEAN, async_msg_enabled \in BOOLEAN :
         /\ thread' = [thread EXCEPT
                ![t].ret = IF fails THEN TransportError ELSE 0,
                ![t].pc = "free"]
         /\ dxgglobal' = IF fails THEN dxgglobal
                         ELSE [dxgglobal EXCEPT
                                  !.async_msg_enabled = async_msg_enabled]
    /\ UNCHANGED <<channel_lock, statusVars, rleVars, enc_call, enc_ret,
                   enc_log, handle_table, enc_objs, iospace>>

\* dxgvmb_send_sync_msg hands the request to the transport.
SendBegin(t) ==
    /\ thread[t].pc = "send"
    /\ in_flight' = in_flight \cup
                       {[thread |-> t, channel |-> thread[t].channel]}
    /\ thread' = [thread EXCEPT ![t].pc = "wait"]
    /\ UNCHANGED <<channel_lock, statusVars, rleVars, encVars>>

\* The value the encoder holds after the call: the transport's error, or
\* what it makes of the handle in the host's answer.
AfterSend(op, fails, handle) ==
    IF fails THEN TransportError
    ELSE IF op = "create_process" /\ handle = 0 THEN 0 - ENOTRECOVERABLE
    ELSE 0

\* dxgvmb_send_sync_msg returns, or dxgvmb_send_async_msg has queued the
\* message and the host has taken it.
SendEnd(t) ==
    /\ thread[t].pc = "wait"
    /\ thread[t].op # "get_internal_adapter_info"
    /\ in_flight' = in_flight \ {[thread |-> t, channel |-> thread[t].channel]}
    /\ \E fails \in BOOLEAN, handle \in {0, HostProcess} :
         thread' = [thread EXCEPT
            ![t].ret = AfterSend(thread[t].op, fails, handle),
            ![t].pc = IF thread[t].op = "create_process" THEN "release"
                      ELSE "free"]
    /\ UNCHANGED <<channel_lock, statusVars, rleVars, encVars>>

\* dxgglobal_release_channel_lock() in dxgvmb_send_create_process.
CreateProcessRelease(t) ==
    /\ thread[t].pc = "release"
    /\ dxgglobal_release_channel_lock(t)
    /\ thread' = [thread EXCEPT ![t].pc = "free"]
    /\ UNCHANGED <<in_flight, statusVars, rleVars, encVars>>

\* free_message and return.
FreeAndReturn(t) ==
    /\ thread[t].pc = "free"
    /\ thread' = [thread EXCEPT ![t].pc = "done"]
    /\ UNCHANGED <<channel_lock, in_flight, statusVars, rleVars, encVars>>

LockNext ==
    \E t \in Threads :
        \/ CreateProcessEnter(t)
        \/ CreateProcessAcquire(t)
        \/ CreateProcessAcquireFails(t)
        \/ CreateDeviceEnter(t)
        \/ SubmitCommandEnter(t)
        \/ SubmitCommandChoose(t)
        \/ GetInternalAdapterInfoEnter(t)
        \/ GetInternalAdapterInfoResult(t)
        \/ SendBegin(t)
        \/ SendEnd(t)
        \/ CreateProcessRelease(t)
        \/ FreeAndReturn(t)

SpecLock == LockInit /\ [][LockNext]_vars

(***************************************************************************)
(* C2: every request an encoder hands to the transport is sent while the   *)
(* calling thread holds the global channel lock, so that no two requests   *)
(* are in flight on the same channel at the same time; adapter-scoped      *)
(* encoders are covered, on the adapter's channel and on the global        *)
(* channel they use when asynchronous messages are enabled.                *)
(***************************************************************************)
C2_SendsUnderChannelLock ==
    /\ \A r \in in_flight : channel_lock = r.thread
    /\ \A r1, r2 \in in_flight : r1.channel = r2.channel => r1 = r2

(***************************************************************************)
(* C15: while adapter-info negotiation may write the async switch at any   *)
(* moment, a submission is sent under one view of the switch: with the     *)
(* asynchronous primitive exactly when it was routed to the global         *)
(* channel, and never asynchronously on an adapter's channel.              *)
(***************************************************************************)
Submitted(t) ==
    /\ thread[t].op = "submit_command"
    /\ thread[t].pc \in {"wait", "free", "done"}
    /\ thread[t].primitive # "none"

C15_OneViewOfAsyncSwitch ==
    \A t \in Threads :
        Submitted(t) =>
            (thread[t].primitive = "async" <=> thread[t].channel[1] = "global")

=============================================================================
